---- MODULE Spec2Model ----
(***************************************************************************)
(* Two-stage beaver dam capacity FIS (vegetation stage, combined stage)    *)
(* with adjustable membership functions.                                    *)
(*                                                                          *)
(* Real numbers are fixed-point integers:                                   *)
(*   suitability (riparian, streamside)   1 = SuitUnit                      *)
(*   stream power  (SPlow, SP2), watts    1 = SPUnit                        *)
(*   slope                                1 = SlopeUnit                     *)
(*   capacity (oVC, oCC), dam count       1 = CapUnit                       *)
(*   membership degree                    1 = MU                            *)
(* A scale factor, shift amount or shape selector handed to an entry point  *)
(* is a rational [num, den] or None.                                        *)
(***************************************************************************)
EXTENDS Integers, Sequences, FiniteSets, Bags, TLC

VARIABLES
    stage,            \* "veg" | "comb": which entry point was called
    pc,               \* position inside the entry point
    args,             \* the arguments of the call
    params,           \* the per-variable shift / scale / shape handed to calculate_*
    database,         \* the reach table of the BRAT database: ReachID -> fields
    feature_values,   \* the loaded batch: ReachID -> fields (dict of dicts)
    arrays,           \* the clamped input arrays, by ReachID
    pts,              \* the breakpoints computed by the builders, per variable
    mfs,              \* the membership functions built for the call
    i,                \* number of reaches the loop has finished
    err               \* the exception that ended the call, or "none"

vars == <<stage, pc, args, params, database, feature_values, arrays, pts, mfs, i, err>>

----------------------------------------------------------------------------
\* Fixed-point units

SuitUnit == 1000
SPUnit == 10000
SlopeUnit == 1000000
CapUnit == 1000000
MU == 100

Min2(a, b) == IF a <= b THEN a ELSE b
Max2(a, b) == IF a >= b THEN a ELSE b
Abs(a) == IF a < 0 THEN -a ELSE a

\* a rational adjustment value, and Python's None
Rat(n, d) == [isNone |-> FALSE, num |-> n, den |-> d]
None == [isNone |-> TRUE, num |-> 0, den |-> 1]
\* value * factor for a factor num/den
Times(value, f) == (value * f.num) \div f.den
\* the rational as a number of `unit`s
InUnit(f, unit) == (f.num * unit) \div f.den
RatEq(f, n) == ~f.isNone /\ f.num = n * f.den
RatLeqZero(f) == f.num <= 0

----------------------------------------------------------------------------
\* skfuzzy membership function generators (fuzz.trimf, fuzz.trapmf, fuzz.pimf,
\* fuzz.gbellmf, fuzz.gaussmf).  A generator gets the arguments the call site
\* hands it and returns the membership function, or the exception it raises.

IsMF(m) == m.kind \in {"tri", "trap", "pi", "gbell", "gauss"}
Raised(kind) == [kind |-> kind, p |-> <<>>]

\* trimf(x, abc): abc must have three elements a <= b <= c
trimf(abc) ==
    IF Len(abc) # 3 THEN Raised("AssertionError")
    ELSE IF ~(abc[1] <= abc[2] /\ abc[2] <= abc[3]) THEN Raised("AssertionError")
    ELSE [kind |-> "tri", p |-> abc]

\* trapmf(x, abcd): abcd must have four elements a <= b <= c <= d
trapmf(abcd) ==
    IF Len(abcd) # 4 THEN Raised("AssertionError")
    ELSE IF ~(abcd[1] <= abcd[2] /\ abcd[2] <= abcd[3] /\ abcd[3] <= abcd[4])
         THEN Raised("AssertionError")
    ELSE [kind |-> "trap", p |-> abcd]

\* pimf(x, a, b, c, d): four positional arguments after x, a <= b <= c <= d
pimf(posargs) ==
    IF Len(posargs) # 4 THEN Raised("TypeError")
    ELSE IF ~(posargs[1] <= posargs[2] /\ posargs[2] <= posargs[3] /\ posargs[3] <= posargs[4])
         THEN Raised("AssertionError")
    ELSE [kind |-> "pi", p |-> posargs]

\* gbellmf(x, a, b, c): width a, slope b (given as 2*b), centre c
gbellmf(a, b2, c) == [kind |-> "gbell", p |-> <<a, b2, c>>]

\* gaussmf(x, mean, sigma)
gaussmf(mean, sigma) == [kind |-> "gauss", p |-> <<mean, sigma>>]

----------------------------------------------------------------------------
\* Membership degrees.  A degree is k/MU for k in 0..MU, written Deg(k), or Eps:
\* positive but below every Deg(k) with k >= 1 (the far tail of a bell or
\* gaussian curve, the foot of a leg).  Zero means outside the support, Full
\* means full membership; inside a leg a degree is neither.

Deg(k) == 2 * k
Zero == Deg(0)
Eps == Zero + 1
Full == Deg(MU)

\* the degree nearest to n/d, for 0 < n/d < 1
Quant(n, d) ==
    LET k == (n * MU + d \div 2) \div d
    IN IF k <= 0 THEN Eps ELSE IF k >= MU THEN Deg(MU - 1) ELSE Deg(k)

\* 1 - degree
Complement(h) == IF h <= Eps THEN Full ELSE Full - h

\* rising edge from a (degree 0) to b (degree 1)
Ramp(x, a, b) ==
    IF x >= b THEN Full
    ELSE IF x <= a THEN Zero
    ELSE Quant(x - a, b - a)

\* S-shaped spline rising from a to b (skfuzzy smf): 2t^2 up to the midpoint,
\* 1 - 2(1-t)^2 after it, t = (x-a)/(b-a) taken in thousandths
SRamp(x, a, b) ==
    IF x >= b THEN Full
    ELSE IF x <= a THEN Zero
    ELSE LET t == ((x - a) * 1000) \div (b - a)
         IN IF 2 * (x - a) <= b - a
            THEN Quant(2 * t * t, 1000000)
            ELSE Quant(1000000 - 2 * (1000 - t) * (1000 - t), 1000000)

\* ratio^n for a ratio in hundredths, saturating at PowCap
PowCap == 1000000
RECURSIVE PowQ(_, _)
PowQ(r, n) ==
    IF n = 0 THEN 100
    ELSE LET h == PowQ(r, n \div 2)
             sq == IF h >= 30000 THEN PowCap ELSE Min2(PowCap, (h * h) \div 100)
         IN IF n % 2 = 0 THEN sq
            ELSE IF sq >= PowCap THEN PowCap ELSE Min2(PowCap, (sq * r) \div 100)

\* 1000 * exp(-z*z/200) for z = 0, 1, 2, ... tenths of a standard deviation
GaussTable ==
    <<1000, 995, 980, 956, 923, 882, 835, 783, 726, 667, 607, 546, 487, 430, 375,
      325, 278, 236, 198, 164, 135, 110, 89, 71, 56, 44, 34, 26, 20, 15, 11, 8, 6, 4>>

Mu(m, x) ==
    CASE m.kind = "tri" ->
           LET a == m.p[1] b == m.p[2] c == m.p[3] IN
           IF x < a \/ x > c THEN Zero
           ELSE IF x = b THEN Full
           ELSE IF x < b THEN Ramp(x, a, b)
           ELSE Ramp(-x, -c, -b)
      [] m.kind = "trap" ->
           LET a == m.p[1] b == m.p[2] c == m.p[3] d == m.p[4] IN
           IF x < a \/ x > d THEN Zero
           ELSE IF x >= b /\ x <= c THEN Full
           ELSE IF x < b THEN Ramp(x, a, b)
           ELSE Ramp(-x, -d, -c)
      [] m.kind = "pi" ->
           LET a == m.p[1] b == m.p[2] c == m.p[3] d == m.p[4] IN
           IF x <= a \/ x >= d THEN Zero
           ELSE IF x >= b /\ x <= c THEN Full
           ELSE IF x < b THEN SRamp(x, a, b)
           ELSE SRamp(-x, -d, -c)
      [] m.kind = "gbell" ->
           \* 1 / (1 + |(x - c) / a| ^ (2b))
           LET a == m.p[1] b2 == m.p[2] c == m.p[3]
               r == Abs(x - c)
               rq == IF r \div a >= 10 THEN 1000 ELSE r \div (a \div 100)
               pw == PowQ(rq, b2)
           IN IF r = 0 THEN Full
              ELSE IF pw >= PowCap THEN Eps
              ELSE Quant(100, 100 + pw)
      [] m.kind = "gauss" ->
           \* exp(-(x - mean)^2 / (2 sigma^2))
           LET mean == m.p[1] sigma == m.p[2]
               r == Abs(x - mean)
               z == IF r \div sigma >= 10 THEN 100 ELSE (r * 10) \div sigma
           IN IF r = 0 THEN Full
              ELSE IF z + 1 > Len(GaussTable) THEN Eps
              ELSE Quant(GaussTable[z + 1], 1000)

----------------------------------------------------------------------------
\* The output variable (density) and the intermediate-capacity input (ovc):
\* never adjusted, the same breakpoints in every stage.

Cap(n, d) == (n * CapUnit) \div d

DensityCats == <<"none", "rare", "occasional", "frequent", "pervasive">>

density_terms ==
    [none |-> trimf(<<0, 0, Cap(1, 10)>>),
     rare |-> trapmf(<<0, Cap(1, 10), Cap(5, 10), Cap(15, 10)>>),
     occasional |-> trapmf(<<Cap(5, 10), Cap(15, 10), Cap(4, 1), Cap(8, 1)>>),
     frequent |-> trapmf(<<Cap(4, 1), Cap(8, 1), Cap(12, 1), Cap(25, 1)>>),
     pervasive |-> trapmf(<<Cap(12, 1), Cap(25, 1), Cap(45, 1), Cap(45, 1)>>)]

ovc_terms ==
    [none |-> trimf(<<0, 0, Cap(1, 10)>>),
     rare |-> trapmf(<<0, Cap(1, 10), Cap(5, 10), Cap(15, 10)>>),
     occasional |-> trapmf(<<Cap(5, 10), Cap(15, 10), Cap(4, 1), Cap(8, 1)>>),
     frequent |-> trapmf(<<Cap(4, 1), Cap(8, 1), Cap(12, 1), Cap(25, 1)>>),
     pervasive |-> trapmf(<<Cap(12, 1), Cap(25, 1), Cap(45, 1), Cap(45, 1)>>)]

\* np.arange(0, 45, 0.01): grid point g stands for g/100
DensityGrid == 0..(45 * 100 - 1)
GridStep == CapUnit \div 100

\* the sampled output membership functions (Consequent terms)
density_mf == [cat \in DOMAIN density_terms |->
                 ([g \in DensityGrid |-> Mu(density_terms[cat], g * GridStep)] @@ <<>>)] @@ <<>>

\* Every output category rises to its core (degree Full) and falls after it, so the
\* grid points whose degree is at least L form one interval <<lo, hi>>.
SetMin(S) == CHOOSE m \in S : \A v \in S : m <= v
SetMax(S) == CHOOSE m \in S : \A v \in S : v <= m

\* the grid points at which the sampled function mf is at least h
AtLeast(mf, h) == {g \in DensityGrid : mf[g] >= h}

\* the core (degree Full) and the support (degree at least Deg(1)) of mf
CoreOf(mf) ==
    [lo |-> SetMin(AtLeast(mf, Full)), hi |-> SetMax(AtLeast(mf, Full)),
     slo |-> SetMin(AtLeast(mf, Deg(1))), shi |-> SetMax(AtLeast(mf, Deg(1)))]

density_core == [cat \in DOMAIN density_terms |-> CoreOf(density_mf[cat])] @@ <<>>

\* the interval on which mf, with core and support c, is at least Deg(L)
CutOf(mf, c, L) ==
    << c.lo - Cardinality({g \in c.slo..c.lo : mf[g] >= Deg(L)}) + 1,
       c.hi + Cardinality({g \in c.hi..c.shi : mf[g] >= Deg(L)}) - 1 >>

density_cut ==
    [cat \in DOMAIN density_terms |->
        ([L \in 1..MU |-> CutOf(density_mf[cat], density_core[cat], L)] @@ <<>>)] @@ <<>>

IntervalCount(lo, hi) == IF hi < lo THEN 0 ELSE hi - lo + 1
IntervalSum(lo, hi) == IF hi < lo THEN 0 ELSE ((lo + hi) * (hi - lo + 1)) \div 2

\* number (what = "count") or sum (what = "sum") of the grid points of lo..hi
Measure(lo, hi, what) == IF what = "count" THEN IntervalCount(lo, hi) ELSE IntervalSum(lo, hi)

\* The aggregated surface max_cat min(alpha[cat], density_mf[cat][g]) is at least
\* L on the union of the cuts at L of the categories with alpha[cat] >= L.  Only
\* neighbouring categories overlap, so the union is measured as the cuts of the
\* categories less the overlaps of neighbours; summing over the levels 1..h
\* gives the area (count) and the moment (sum) of a category clipped at h, and
\* of the overlap of two neighbours both clipped at h or above.
RECURSIVE OwnUpTo(_, _, _)
OwnUpTo(cuts, h, what) ==
    IF h = 0 THEN 0
    ELSE Measure(cuts[h][1], cuts[h][2], what) + OwnUpTo(cuts, h - 1, what)

RECURSIVE SharedUpTo(_, _, _, _)
SharedUpTo(cuts, next, h, what) ==
    IF h = 0 THEN 0
    ELSE Measure(next[h][1], cuts[h][2], what) + SharedUpTo(cuts, next, h - 1, what)

Measures == {"count", "sum"}

surface_own ==
    [k \in 1..5 |-> ([h \in 0..MU |->
        [what \in Measures |-> OwnUpTo(density_cut[DensityCats[k]], h, what)]] @@ <<>>)] @@ <<>>

\* the cuts of category k and of its right neighbour
CutPair(cuts, k) == <<cuts[DensityCats[k]], cuts[DensityCats[k + 1]]>>

surface_shared ==
    [k \in 1..4 |-> ([h \in 0..MU |->
        [what \in Measures |->
            SharedUpTo(CutPair(density_cut, k)[1], CutPair(density_cut, k)[2], h, what)]] @@ <<>>)] @@ <<>>

\* the same total for the first k categories clipped at alpha
RECURSIVE SurfaceUpTo(_, _, _)
SurfaceUpTo(alpha, what, k) ==
    IF k = 0 THEN 0
    ELSE SurfaceUpTo(alpha, what, k - 1)
         + (surface_own[k][alpha[DensityCats[k]]][what]
            - (IF k = 1 THEN 0
               ELSE surface_shared[k - 1][Min2(alpha[DensityCats[k - 1]], alpha[DensityCats[k]])][what]))

\* sum over the grid of the aggregated surface (count) or of g * surface (sum)
SurfaceTotal(alpha, what) == SurfaceUpTo(alpha, what, Len(DensityCats))

\* fuzz.defuzz(x, mfx, 'centroid') of the surface that clips every output
\* category at its firing strength and takes the pointwise maximum:
\* sum(g * surface[g]) / max(sum(surface[g]), eps) over the grid, each sum taken
\* level by level.  The result is in CapUnit.  When no category fires the total
\* area is zero and defuzz raises (NoArea); when the strongest category fires at
\* Eps the area is below the machine epsilon that the division guards with, and
\* the quotient is a positive number too small to survive any rounding (Tiny).
NoArea == 0 - 1
Tiny == 1

\* sum_moment_x / sum_area, in CapUnit, truncated to four decimals of a grid step
centroid(mom, area) ==
    LET q == mom \div area
        r1 == mom % area
        f1 == (r1 * 100) \div area
        r2 == (r1 * 100) % area
        f2 == (r2 * 100) \div area
    IN (q * 10000 + f1 * 100 + f2) * (GridStep \div 10000)

centroid_of(total) == centroid(total["sum"], total["count"])

\* the surface clipped at the levels alpha, for the strengths they come from
defuzz_levels(strength, alpha) ==
    IF SetMax({strength[cat] : cat \in DOMAIN strength}) = Zero THEN NoArea
    ELSE IF SetMax({alpha[cat] : cat \in DOMAIN alpha}) = 0 THEN Tiny
    ELSE centroid_of([what \in Measures |-> SurfaceTotal(alpha, what)])

defuzz(strength) ==
    defuzz_levels(strength, [cat \in DOMAIN strength |-> strength[cat] \div 2])

\* ControlSystemSimulation.compute(): the firing strength of a rule is the
\* minimum of its antecedent terms (1 - degree for a negated term), the
\* strength of an output category is the maximum over its rules.  Inputs are
\* clipped to the universe of their variable.
Clip(x, universe) == Max2(universe[1], Min2(universe[2], x))

RuleStrength(rule, terms, universes, input) ==
    LET deg(k) == LET t == rule.ante[k]
                      m == Mu(terms[t[1]][t[2]], Clip(input[t[1]], universes[t[1]]))
                  IN IF t[3] THEN Complement(m) ELSE m
        all == {deg(k) : k \in 1..Len(rule.ante)}
    IN CHOOSE m \in all : \A v \in all : m <= v

Strengths(rules, terms, universes, input) ==
    [cat \in DOMAIN density_terms |->
        LET fs == {Zero} \cup {RuleStrength(rules[j], terms, universes, input) :
                              j \in {k \in 1..Len(rules) : rules[k].cons = cat}}
        IN CHOOSE m \in fs : \A v \in fs : v <= m]

compute(rules, terms, universes, input) ==
    defuzz(Strengths(rules, terms, universes, input))

----------------------------------------------------------------------------
\* Combined stage: membership functions of SPlow, SP2 and slope

W(n) == n * SPUnit
Slo(n, d) == (n * SlopeUnit) \div d

\* Antecedent universes: np.arange(0, 45, 0.01), np.arange(0, 10000, 1),
\* np.arange(0, 1, 0.0001): <<min, max>> of the grid
comb_universes ==
    [ovc |-> <<0, Cap(45, 1) - Cap(1, 100)>>,
     splow |-> <<0, W(10000) - W(1)>>,
     sp2 |-> <<0, W(10000) - W(1)>>,
     slope |-> <<0, Slo(1, 1) - Slo(1, 10000)>>]

\* a scaling that multiplies the outer breakpoints instead of the leg lengths
trap_scale_outer(abcd, scale_factor) ==
    <<Times(abcd[1], scale_factor), abcd[2], abcd[3], Times(abcd[4], scale_factor)>>

\* calculate_trap_scale: the top (b, c) stays, the legs are scaled
calculate_trap_scale(abcd, scale_factor) ==
    LET b == abcd[2]
        c == abcd[3]
        a == b - Times(b - abcd[1], scale_factor)
        d == c + Times(abcd[4] - c, scale_factor)
    IN <<a, b, c, d>>

\* the triangle loop of the SP2 section
scale_triangle(abc, scale_factor) ==
    LET b == abc[2]
        a == b - Times(b - abc[1], scale_factor)
        c == b + Times(abc[3] - b, scale_factor)
    IN <<a, b, c>>

\* SPlow trapezoids whose 'probably' top is left where it was
splow_trapezoids_partial(c) ==
    [can |-> <<0, 0, W(150) + c, W(175) + c>>,
     probably |-> <<W(150) + c, W(175), W(180), W(190) + c>>,
     cannot |-> <<W(180) + c, W(190) + c, W(10000), W(10000)>>]

splow_trapezoids(c) ==
    [can |-> <<0, 0, W(150) + c, W(175) + c>>,
     probably |-> <<W(150) + c, W(175) + c, W(180) + c, W(190) + c>>,
     cannot |-> <<W(180) + c, W(190) + c, W(10000), W(10000)>>]

sp2_trapezoids(c) ==
    [persists |-> <<0, 0, W(1000) + c, W(1200) + c>>,
     blowout |-> <<W(1600) + c, W(2400) + c, W(10000), W(10000)>>]

sp2_triangles(c) ==
    [breach |-> <<W(1000) + c, W(1200) + c, W(1600) + c>>,
     oblowout |-> <<W(1200) + c, W(1600) + c, W(2400) + c>>]

slope_trapezoids(c) ==
    [flat |-> <<0, 0, Slo(2, 10000), Slo(5, 1000)>>,
     can |-> <<Slo(2, 10000), Slo(5, 1000), Slo(12, 100) + c, Slo(15, 100) + c>>,
     probably |-> <<Slo(12, 100) + c, Slo(15, 100) + c, Slo(17, 100) + c, Slo(23, 100) + c>>,
     cannot |-> <<Slo(17, 100) + c, Slo(23, 100) + c, Slo(1, 1), Slo(1, 1)>>]

\* pts after the scaling loops
splow_pts(shift, scale) ==
    [cat \in DOMAIN splow_trapezoids(shift) |->
        calculate_trap_scale(splow_trapezoids(shift)[cat], scale)]

sp2_pts(shift, scale) ==
    [cat \in {"persists", "blowout", "breach", "oblowout"} |->
        IF cat \in DOMAIN sp2_trapezoids(shift)
        THEN calculate_trap_scale(sp2_trapezoids(shift)[cat], scale)
        ELSE scale_triangle(sp2_triangles(shift)[cat], scale)]

slope_pts(shift, scale) ==
    [cat \in DOMAIN slope_trapezoids(shift) |->
        calculate_trap_scale(slope_trapezoids(shift)[cat], scale)]

\* The scaling loops unpack into a, b, c, d: after them the variable c no longer
\* holds the shift but the c of the last category the loop handled.
splow_c(p) == p["cannot"][3]
sp2_c(p) == p["oblowout"][3]
slope_c(p) == p["cannot"][3]

splow_terms(p, shape) ==
    IF RatEq(shape, 1)
    THEN [can |-> pimf(<<-(SPUnit \div 100), 0, p["can"][3], p["can"][4]>>),
          probably |-> pimf(<<p["probably"]>>),
          cannot |-> pimf(<<p["cannot"][1], p["cannot"][2], W(10000), W(10000) + SPUnit \div 10>>)]
    ELSE IF RatEq(shape, 2)
    THEN [can |-> gbellmf(W(85), 2 * 8, W(75) + splow_c(p)),
          probably |-> gbellmf(W(10), 2 * 2, W(170) + splow_c(p)),
          cannot |-> gbellmf(W(4910), 2 * 750, W(5090) + splow_c(p))]
    ELSE [can |-> trapmf(<<p["can"]>>),
          probably |-> trapmf(<<p["probably"]>>),
          cannot |-> trapmf(<<p["cannot"]>>)]

sp2_terms(p, shape) ==
    IF RatEq(shape, 1)
    THEN [persists |-> pimf(<<-(SPUnit \div 100), 0, p["persists"][3], p["persists"][4]>>),
          breach |-> pimf(<<p["breach"]>>),
          oblowout |-> pimf(<<p["oblowout"]>>),
          blowout |-> pimf(<<p["blowout"][1], p["blowout"][2], W(10000), W(10000) + SPUnit \div 10>>)]
    ELSE IF RatEq(shape, 2)
    THEN [persists |-> gbellmf(W(500), 2 * 5, W(500) + sp2_c(p)),
          breach |-> gaussmf(W(1200) + sp2_c(p), W(150)),
          oblowout |-> gaussmf(W(1700) + sp2_c(p), W(250)),
          blowout |-> gbellmf(W(4200), 2 * 20, W(6200) + sp2_c(p))]
    ELSE [persists |-> trapmf(<<p["persists"]>>),
          breach |-> trimf(<<p["breach"]>>),
          oblowout |-> trimf(<<p["oblowout"]>>),
          blowout |-> trapmf(<<p["blowout"]>>)]

slope_terms(p, shape) ==
    IF RatEq(shape, 1)
    THEN [flat |-> pimf(<<-Slo(1, 100), 0, Slo(2, 10000), Slo(5, 1000)>>),
          can |-> pimf(<<Slo(2, 10000), Slo(5, 1000), p["can"][3], p["can"][4]>>),
          probably |-> pimf(p["probably"]),
          cannot |-> pimf(<<p["cannot"][1], p["cannot"][2], Slo(1, 1), Slo(101, 100)>>)]
    ELSE IF RatEq(shape, 2)
    THEN [flat |-> gbellmf(Slo(25, 10000), 2 * 3, Slo(25, 10000) + slope_c(p)),
          can |-> gbellmf(Slo(7, 100), 2 * 3, Slo(6, 100) + slope_c(p)),
          probably |-> gbellmf(Slo(35, 1000), 3, Slo(165, 1000) + slope_c(p)),
          cannot |-> gbellmf(Slo(38, 100), 2 * 14, Slo(585, 1000) + slope_c(p))]
    ELSE [flat |-> trapmf(<<p["flat"]>>),
          can |-> trapmf(<<p["can"]>>),
          probably |-> trapmf(<<p["probably"]>>),
          cannot |-> trapmf(<<p["cannot"]>>)]

\* the order in which calculate_combined_fis_custom builds the adjustable terms
comb_build_order ==
    << <<"splow", "can">>, <<"splow", "probably">>, <<"splow", "cannot">>,
       <<"sp2", "persists">>, <<"sp2", "breach">>, <<"sp2", "oblowout">>, <<"sp2", "blowout">>,
       <<"slope", "flat">>, <<"slope", "can">>, <<"slope", "probably">>, <<"slope", "cannot">> >>

\* the exception of the first generator call that raises, or "none"
FirstRaised(terms, order) ==
    LET bad == {k \in 1..Len(order) : ~IsMF(terms[order[k][1]][order[k][2]])}
    IN IF bad = {} THEN "none"
       ELSE LET k == SetMin(bad) IN terms[order[k][1]][order[k][2]].kind

comb_pts_custom(q) ==
    [splow |-> splow_pts(q.spl_shift, q.spl_scale),
     sp2 |-> sp2_pts(q.sp2_shift, q.sp2_scale),
     slope |-> slope_pts(q.slo_shift, q.slo_scale)]

comb_terms_custom(q) ==
    [ovc |-> ovc_terms,
     splow |-> splow_terms(comb_pts_custom(q).splow, q.spl_shape),
     sp2 |-> sp2_terms(comb_pts_custom(q).sp2, q.sp2_shape),
     slope |-> slope_terms(comb_pts_custom(q).slope, q.slo_shape)]

\* calculate_combined_fis: the standard membership functions
comb_terms ==
    [ovc |-> ovc_terms,
     sp2 |-> [persists |-> trapmf(<<0, 0, W(1000), W(1200)>>),
              breach |-> trimf(<<W(1000), W(1200), W(1600)>>),
              oblowout |-> trimf(<<W(1200), W(1600), W(2400)>>),
              blowout |-> trapmf(<<W(1600), W(2400), W(10000), W(10000)>>)],
     splow |-> [can |-> trapmf(<<0, 0, W(150), W(175)>>),
                probably |-> trapmf(<<W(150), W(175), W(180), W(190)>>),
                cannot |-> trapmf(<<W(180), W(190), W(10000), W(10000)>>)],
     slope |-> [flat |-> trapmf(<<0, 0, Slo(2, 10000), Slo(5, 1000)>>),
                can |-> trapmf(<<Slo(2, 10000), Slo(5, 1000), Slo(12, 100), Slo(15, 100)>>),
                probably |-> trapmf(<<Slo(12, 100), Slo(15, 100), Slo(17, 100), Slo(23, 100)>>),
                cannot |-> trapmf(<<Slo(17, 100), Slo(23, 100), Slo(1, 1), Slo(1, 1)>>)]]

\* a rule table with nothing but the three rules whose consequent is 'none'
comb_ctrl_none_only ==
    << [ante |-> <<<<"ovc", "none", FALSE>>>>, cons |-> "none"],
       [ante |-> <<<<"splow", "cannot", FALSE>>>>, cons |-> "none"],
       [ante |-> <<<<"slope", "cannot", FALSE>>>>, cons |-> "none"] >>

\* rule table of calculate_combined_fis_custom
comb_ctrl_custom ==
    << [ante |-> <<<<"ovc", "none", FALSE>>>>, cons |-> "none"],
       [ante |-> <<<<"splow", "cannot", FALSE>>>>, cons |-> "none"],
       [ante |-> <<<<"slope", "cannot", FALSE>>>>, cons |-> "none"],
       [ante |-> <<<<"ovc", "rare", FALSE>>, <<"sp2", "persists", FALSE>>, <<"splow", "can", FALSE>>, <<"slope", "cannot", TRUE>>>>, cons |-> "rare"],
       [ante |-> <<<<"ovc", "rare", FALSE>>, <<"sp2", "persists", FALSE>>, <<"splow", "probably", FALSE>>, <<"slope", "cannot", TRUE>>>>, cons |-> "rare"],
       [ante |-> <<<<"ovc", "rare", FALSE>>, <<"sp2", "breach", FALSE>>, <<"splow", "can", FALSE>>, <<"slope", "cannot", TRUE>>>>, cons |-> "rare"],
       [ante |-> <<<<"ovc", "rare", FALSE>>, <<"sp2", "breach", FALSE>>, <<"splow", "probably", FALSE>>, <<"slope", "cannot", TRUE>>>>, cons |-> "rare"],
       [ante |-> <<<<"ovc", "rare", FALSE>>, <<"sp2", "oblowout", FALSE>>, <<"splow", "can", FALSE>>, <<"slope", "cannot", TRUE>>>>, cons |-> "rare"],
       [ante |-> <<<<"ovc", "rare", FALSE>>, <<"sp2", "oblowout", FALSE>>, <<"splow", "probably", FALSE>>, <<"slope", "cannot", TRUE>>>>, cons |-> "rare"],
       [ante |-> <<<<"ovc", "rare", FALSE>>, <<"sp2", "blowout", FALSE>>, <<"splow", "can", FALSE>>, <<"slope", "cannot", TRUE>>>>, cons |-> "none"],
       [ante |-> <<<<"ovc", "rare", FALSE>>, <<"sp2", "blowout", FALSE>>, <<"splow", "probably", FALSE>>, <<"slope", "cannot", TRUE>>>>, cons |-> "none"],
       [ante |-> <<<<"ovc", "occasional", FALSE>>, <<"sp2", "persists", FALSE>>, <<"splow", "can", FALSE>>, <<"slope", "cannot", TRUE>>>>, cons |-> "occasional"],
       [ante |-> <<<<"ovc", "occasional", FALSE>>, <<"sp2", "persists", FALSE>>, <<"splow", "probably", FALSE>>, <<"slope", "cannot", TRUE>>>>, cons |-> "occasional"],
       [ante |-> <<<<"ovc", "occasional", FALSE>>, <<"sp2", "breach", FALSE>>, <<"splow", "can", FALSE>>, <<"slope", "cannot", TRUE>>>>, cons |-> "occasional"],
       [ante |-> <<<<"ovc", "occasional", FALSE>>, <<"sp2", "breach", FALSE>>, <<"splow", "probably", FALSE>>, <<"slope", "cannot", TRUE>>>>, cons |-> "occasional"],
       [ante |-> <<<<"ovc", "occasional", FALSE>>, <<"sp2", "oblowout", FALSE>>, <<"splow", "can", FALSE>>, <<"slope", "cannot", TRUE>>>>, cons |-> "occasional"],
       [ante |-> <<<<"ovc", "occasional", FALSE>>, <<"sp2", "oblowout", FALSE>>, <<"splow", "probably", FALSE>>, <<"slope", "cannot", TRUE>>>>, cons |-> "rare"],
       [ante |-> <<<<"ovc", "occasional", FALSE>>, <<"sp2", "blowout", FALSE>>, <<"splow", "can", FALSE>>, <<"slope", "cannot", TRUE>>>>, cons |-> "rare"],
       [ante |-> <<<<"ovc", "occasional", FALSE>>, <<"sp2", "blowout", FALSE>>, <<"splow", "probably", FALSE>>, <<"slope", "cannot", TRUE>>>>, cons |-> "rare"],
       [ante |-> <<<<"ovc", "frequent", FALSE>>, <<"sp2", "persists", FALSE>>, <<"splow", "can", FALSE>>, <<"slope", "flat", FALSE>>>>, cons |-> "occasional"],
       [ante |-> <<<<"ovc", "frequent", FALSE>>, <<"sp2", "persists", FALSE>>, <<"splow", "can", FALSE>>, <<"slope", "can", FALSE>>>>, cons |-> "frequent"],
       [ante |-> <<<<"ovc", "frequent", FALSE>>, <<"sp2", "persists", FALSE>>, <<"splow", "can", FALSE>>, <<"slope", "probably", FALSE>>>>, cons |-> "occasional"],
       [ante |-> <<<<"ovc", "frequent", FALSE>>, <<"sp2", "persists", FALSE>>, <<"splow", "probably", FALSE>>, <<"slope", "flat", FALSE>>>>, cons |-> "occasional"],
       [ante |-> <<<<"ovc", "frequent", FALSE>>, <<"sp2", "persists", FALSE>>, <<"splow", "probably", FALSE>>, <<"slope", "can", FALSE>>>>, cons |-> "frequent"],
       [ante |-> <<<<"ovc", "frequent", FALSE>>, <<"sp2", "persists", FALSE>>, <<"splow", "probably", FALSE>>, <<"slope", "probably", FALSE>>>>, cons |-> "occasional"],
       [ante |-> <<<<"ovc", "frequent", FALSE>>, <<"sp2", "breach", FALSE>>, <<"splow", "can", FALSE>>, <<"slope", "flat", FALSE>>>>, cons |-> "occasional"],
       [ante |-> <<<<"ovc", "frequent", FALSE>>, <<"sp2", "breach", FALSE>>, <<"splow", "can", FALSE>>, <<"slope", "can", FALSE>>>>, cons |-> "frequent"],
       [ante |-> <<<<"ovc", "frequent", FALSE>>, <<"sp2", "breach", FALSE>>, <<"splow", "can", FALSE>>, <<"slope", "probably", FALSE>>>>, cons |-> "occasional"],
       [ante |-> <<<<"ovc", "frequent", FALSE>>, <<"sp2", "breach", FALSE>>, <<"splow", "probably", FALSE>>, <<"slope", "flat", FALSE>>>>, cons |-> "occasional"],
       [ante |-> <<<<"ovc", "frequent", FALSE>>, <<"sp2", "breach", FALSE>>, <<"splow", "probably", FALSE>>, <<"slope", "can", FALSE>>>>, cons |-> "frequent"],
       [ante |-> <<<<"ovc", "frequent", FALSE>>, <<"sp2", "breach", FALSE>>, <<"splow", "probably", FALSE>>, <<"slope", "probably", FALSE>>>>, cons |-> "occasional"],
       [ante |-> <<<<"ovc", "frequent", FALSE>>, <<"sp2", "oblowout", FALSE>>, <<"splow", "can", FALSE>>, <<"slope", "flat", FALSE>>>>, cons |-> "occasional"],
       [ante |-> <<<<"ovc", "frequent", FALSE>>, <<"sp2", "oblowout", FALSE>>, <<"splow", "can", FALSE>>, <<"slope", "can", FALSE>>>>, cons |-> "frequent"],
       [ante |-> <<<<"ovc", "frequent", FALSE>>, <<"sp2", "oblowout", FALSE>>, <<"splow", "can", FALSE>>, <<"slope", "probably", FALSE>>>>, cons |-> "occasional"],
       [ante |-> <<<<"ovc", "frequent", FALSE>>, <<"sp2", "oblowout", FALSE>>, <<"splow", "probably", FALSE>>, <<"slope", "flat", FALSE>>>>, cons |-> "rare"],
       [ante |-> <<<<"ovc", "frequent", FALSE>>, <<"sp2", "oblowout", FALSE>>, <<"splow", "probably", FALSE>>, <<"slope", "can", FALSE>>>>, cons |-> "occasional"],
       [ante |-> <<<<"ovc", "frequent", FALSE>>, <<"sp2", "oblowout", FALSE>>, <<"splow", "probably", FALSE>>, <<"slope", "probably", FALSE>>>>, cons |-> "rare"],
       [ante |-> <<<<"ovc", "frequent", FALSE>>, <<"sp2", "blowout", FALSE>>, <<"splow", "can", FALSE>>, <<"slope", "flat", FALSE>>>>, cons |-> "rare"],
       [ante |-> <<<<"ovc", "frequent", FALSE>>, <<"sp2", "blowout", FALSE>>, <<"splow", "can", FALSE>>, <<"slope", "can", FALSE>>>>, cons |-> "rare"],
       [ante |-> <<<<"ovc", "frequent", FALSE>>, <<"sp2", "blowout", FALSE>>, <<"splow", "can", FALSE>>, <<"slope", "probably", FALSE>>>>, cons |-> "rare"],
       [ante |-> <<<<"ovc", "frequent", FALSE>>, <<"sp2", "blowout", FALSE>>, <<"splow", "probably", FALSE>>, <<"slope", "flat", FALSE>>>>, cons |-> "rare"],
       [ante |-> <<<<"ovc", "frequent", FALSE>>, <<"sp2", "blowout", FALSE>>, <<"splow", "probably", FALSE>>, <<"slope", "can", FALSE>>>>, cons |-> "rare"],
       [ante |-> <<<<"ovc", "frequent", FALSE>>, <<"sp2", "blowout", FALSE>>, <<"splow", "probably", FALSE>>, <<"slope", "probably", FALSE>>>>, cons |-> "none"],
       [ante |-> <<<<"ovc", "pervasive", FALSE>>, <<"sp2", "persists", FALSE>>, <<"splow", "can", FALSE>>, <<"slope", "flat", FALSE>>>>, cons |-> "frequent"],
       [ante |-> <<<<"ovc", "pervasive", FALSE>>, <<"sp2", "persists", FALSE>>, <<"splow", "can", FALSE>>, <<"slope", "can", FALSE>>>>, cons |-> "pervasive"],
       [ante |-> <<<<"ovc", "pervasive", FALSE>>, <<"sp2", "persists", FALSE>>, <<"splow", "can", FALSE>>, <<"slope", "probably", FALSE>>>>, cons |-> "occasional"],
       [ante |-> <<<<"ovc", "pervasive", FALSE>>, <<"sp2", "persists", FALSE>>, <<"splow", "probably", FALSE>>, <<"slope", "flat", FALSE>>>>, cons |-> "frequent"],
       [ante |-> <<<<"ovc", "pervasive", FALSE>>, <<"sp2", "persists", FALSE>>, <<"splow", "probably", FALSE>>, <<"slope", "can", FALSE>>>>, cons |-> "pervasive"],
       [ante |-> <<<<"ovc", "pervasive", FALSE>>, <<"sp2", "persists", FALSE>>, <<"splow", "probably", FALSE>>, <<"slope", "probably", FALSE>>>>, cons |-> "frequent"],
       [ante |-> <<<<"ovc", "pervasive", FALSE>>, <<"sp2", "breach", FALSE>>, <<"splow", "can", FALSE>>, <<"slope", "flat", FALSE>>>>, cons |-> "occasional"],
       [ante |-> <<<<"ovc", "pervasive", FALSE>>, <<"sp2", "breach", FALSE>>, <<"splow", "can", FALSE>>, <<"slope", "can", FALSE>>>>, cons |-> "frequent"],
       [ante |-> <<<<"ovc", "pervasive", FALSE>>, <<"sp2", "breach", FALSE>>, <<"splow", "can", FALSE>>, <<"slope", "probably", FALSE>>>>, cons |-> "occasional"],
       [ante |-> <<<<"ovc", "pervasive", FALSE>>, <<"sp2", "breach", FALSE>>, <<"splow", "probably", FALSE>>, <<"slope", "flat", FALSE>>>>, cons |-> "occasional"],
       [ante |-> <<<<"ovc", "pervasive", FALSE>>, <<"sp2", "breach", FALSE>>, <<"splow", "probably", FALSE>>, <<"slope", "can", FALSE>>>>, cons |-> "frequent"],
       [ante |-> <<<<"ovc", "pervasive", FALSE>>, <<"sp2", "breach", FALSE>>, <<"splow", "probably", FALSE>>, <<"slope", "probably", FALSE>>>>, cons |-> "occasional"],
       [ante |-> <<<<"ovc", "pervasive", FALSE>>, <<"sp2", "oblowout", FALSE>>, <<"splow", "can", FALSE>>, <<"slope", "flat", FALSE>>>>, cons |-> "occasional"],
       [ante |-> <<<<"ovc", "pervasive", FALSE>>, <<"sp2", "oblowout", FALSE>>, <<"splow", "can", FALSE>>, <<"slope", "can", FALSE>>>>, cons |-> "frequent"],
       [ante |-> <<<<"ovc", "pervasive", FALSE>>, <<"sp2", "oblowout", FALSE>>, <<"splow", "can", FALSE>>, <<"slope", "probably", FALSE>>>>, cons |-> "occasional"],
       [ante |-> <<<<"ovc", "pervasive", FALSE>>, <<"sp2", "oblowout", FALSE>>, <<"splow", "probably", FALSE>>, <<"slope", "flat", FALSE>>>>, cons |-> "occasional"],
       [ante |-> <<<<"ovc", "pervasive", FALSE>>, <<"sp2", "oblowout", FALSE>>, <<"splow", "probably", FALSE>>, <<"slope", "can", FALSE>>>>, cons |-> "occasional"],
       [ante |-> <<<<"ovc", "pervasive", FALSE>>, <<"sp2", "oblowout", FALSE>>, <<"splow", "probably", FALSE>>, <<"slope", "probably", FALSE>>>>, cons |-> "rare"],
       [ante |-> <<<<"ovc", "pervasive", FALSE>>, <<"sp2", "blowout", FALSE>>, <<"splow", "can", FALSE>>, <<"slope", "flat", FALSE>>>>, cons |-> "rare"],
       [ante |-> <<<<"ovc", "pervasive", FALSE>>, <<"sp2", "blowout", FALSE>>, <<"splow", "can", FALSE>>, <<"slope", "can", FALSE>>>>, cons |-> "occasional"],
       [ante |-> <<<<"ovc", "pervasive", FALSE>>, <<"sp2", "blowout", FALSE>>, <<"splow", "can", FALSE>>, <<"slope", "probably", FALSE>>>>, cons |-> "rare"],
       [ante |-> <<<<"ovc", "pervasive", FALSE>>, <<"sp2", "blowout", FALSE>>, <<"splow", "probably", FALSE>>, <<"slope", "flat", FALSE>>>>, cons |-> "rare"],
       [ante |-> <<<<"ovc", "pervasive", FALSE>>, <<"sp2", "blowout", FALSE>>, <<"splow", "probably", FALSE>>, <<"slope", "can", FALSE>>>>, cons |-> "rare"],
       [ante |-> <<<<"ovc", "pervasive", FALSE>>, <<"sp2", "blowout", FALSE>>, <<"splow", "probably", FALSE>>, <<"slope", "probably", FALSE>>>>, cons |-> "rare"] >>

\* a rule table with a rule that gives a rare vegetation capacity a frequent
\* combined capacity
comb_ctrl_raising ==
    << [ante |-> <<<<"ovc", "none", FALSE>>>>, cons |-> "none"],
       [ante |-> <<<<"splow", "cannot", FALSE>>>>, cons |-> "none"],
       [ante |-> <<<<"slope", "cannot", FALSE>>>>, cons |-> "none"],
       [ante |-> <<<<"ovc", "rare", FALSE>>, <<"sp2", "persists", FALSE>>, <<"splow", "can", FALSE>>,
                   <<"slope", "cannot", TRUE>>>>, cons |-> "frequent"] >>

\* rule table of calculate_combined_fis
comb_ctrl ==
    << [ante |-> <<<<"ovc", "none", FALSE>>>>, cons |-> "none"],
       [ante |-> <<<<"splow", "cannot", FALSE>>>>, cons |-> "none"],
       [ante |-> <<<<"slope", "cannot", FALSE>>>>, cons |-> "none"],
       [ante |-> <<<<"ovc", "rare", FALSE>>, <<"sp2", "persists", FALSE>>, <<"splow", "can", FALSE>>, <<"slope", "cannot", TRUE>>>>, cons |-> "rare"],
       [ante |-> <<<<"ovc", "rare", FALSE>>, <<"sp2", "persists", FALSE>>, <<"splow", "probably", FALSE>>, <<"slope", "cannot", TRUE>>>>, cons |-> "rare"],
       [ante |-> <<<<"ovc", "rare", FALSE>>, <<"sp2", "breach", FALSE>>, <<"splow", "can", FALSE>>, <<"slope", "cannot", TRUE>>>>, cons |-> "rare"],
       [ante |-> <<<<"ovc", "rare", FALSE>>, <<"sp2", "breach", FALSE>>, <<"splow", "probably", FALSE>>, <<"slope", "cannot", TRUE>>>>, cons |-> "rare"],
       [ante |-> <<<<"ovc", "rare", FALSE>>, <<"sp2", "oblowout", FALSE>>, <<"splow", "can", FALSE>>, <<"slope", "cannot", TRUE>>>>, cons |-> "rare"],
       [ante |-> <<<<"ovc", "rare", FALSE>>, <<"sp2", "oblowout", FALSE>>, <<"splow", "probably", FALSE>>, <<"slope", "cannot", TRUE>>>>, cons |-> "rare"],
       [ante |-> <<<<"ovc", "rare", FALSE>>, <<"sp2", "blowout", FALSE>>, <<"splow", "can", FALSE>>, <<"slope", "cannot", TRUE>>>>, cons |-> "none"],
       [ante |-> <<<<"ovc", "rare", FALSE>>, <<"sp2", "blowout", FALSE>>, <<"splow", "probably", FALSE>>, <<"slope", "cannot", TRUE>>>>, cons |-> "none"],
       [ante |-> <<<<"ovc", "occasional", FALSE>>, <<"sp2", "persists", FALSE>>, <<"splow", "can", FALSE>>, <<"slope", "cannot", TRUE>>>>, cons |-> "occasional"],
       [ante |-> <<<<"ovc", "occasional", FALSE>>, <<"sp2", "persists", FALSE>>, <<"splow", "probably", FALSE>>, <<"slope", "cannot", TRUE>>>>, cons |-> "occasional"],
       [ante |-> <<<<"ovc", "occasional", FALSE>>, <<"sp2", "breach", FALSE>>, <<"splow", "can", FALSE>>, <<"slope", "cannot", TRUE>>>>, cons |-> "occasional"],
       [ante |-> <<<<"ovc", "occasional", FALSE>>, <<"sp2", "breach", FALSE>>, <<"splow", "probably", FALSE>>, <<"slope", "cannot", TRUE>>>>, cons |-> "occasional"],
       [ante |-> <<<<"ovc", "occasional", FALSE>>, <<"sp2", "oblowout", FALSE>>, <<"splow", "can", FALSE>>, <<"slope", "cannot", TRUE>>>>, cons |-> "occasional"],
       [ante |-> <<<<"ovc", "occasional", FALSE>>, <<"sp2", "oblowout", FALSE>>, <<"splow", "probably", FALSE>>, <<"slope", "cannot", TRUE>>>>, cons |-> "rare"],
       [ante |-> <<<<"ovc", "occasional", FALSE>>, <<"sp2", "blowout", FALSE>>, <<"splow", "can", FALSE>>, <<"slope", "cannot", TRUE>>>>, cons |-> "rare"],
       [ante |-> <<<<"ovc", "occasional", FALSE>>, <<"sp2", "blowout", FALSE>>, <<"splow", "probably", FALSE>>, <<"slope", "cannot", TRUE>>>>, cons |-> "rare"],
       [ante |-> <<<<"ovc", "frequent", FALSE>>, <<"sp2", "persists", FALSE>>, <<"splow", "can", FALSE>>, <<"slope", "flat", FALSE>>>>, cons |-> "occasional"],
       [ante |-> <<<<"ovc", "frequent", FALSE>>, <<"sp2", "persists", FALSE>>, <<"splow", "can", FALSE>>, <<"slope", "can", FALSE>>>>, cons |-> "frequent"],
       [ante |-> <<<<"ovc", "frequent", FALSE>>, <<"sp2", "persists", FALSE>>, <<"splow", "can", FALSE>>, <<"slope", "probably", FALSE>>>>, cons |-> "occasional"],
       [ante |-> <<<<"ovc", "frequent", FALSE>>, <<"sp2", "persists", FALSE>>, <<"splow", "probably", FALSE>>, <<"slope", "flat", FALSE>>>>, cons |-> "occasional"],
       [ante |-> <<<<"ovc", "frequent", FALSE>>, <<"sp2", "persists", FALSE>>, <<"splow", "probably", FALSE>>, <<"slope", "can", FALSE>>>>, cons |-> "frequent"],
       [ante |-> <<<<"ovc", "frequent", FALSE>>, <<"sp2", "persists", FALSE>>, <<"splow", "probably", FALSE>>, <<"slope", "probably", FALSE>>>>, cons |-> "occasional"],
       [ante |-> <<<<"ovc", "frequent", FALSE>>, <<"sp2", "breach", FALSE>>, <<"splow", "can", FALSE>>, <<"slope", "flat", FALSE>>>>, cons |-> "occasional"],
       [ante |-> <<<<"ovc", "frequent", FALSE>>, <<"sp2", "breach", FALSE>>, <<"splow", "can", FALSE>>, <<"slope", "can", FALSE>>>>, cons |-> "frequent"],
       [ante |-> <<<<"ovc", "frequent", FALSE>>, <<"sp2", "breach", FALSE>>, <<"splow", "can", FALSE>>, <<"slope", "probably", FALSE>>>>, cons |-> "occasional"],
       [ante |-> <<<<"ovc", "frequent", FALSE>>, <<"sp2", "breach", FALSE>>, <<"splow", "probably", FALSE>>, <<"slope", "flat", FALSE>>>>, cons |-> "occasional"],
       [ante |-> <<<<"ovc", "frequent", FALSE>>, <<"sp2", "breach", FALSE>>, <<"splow", "probably", FALSE>>, <<"slope", "can", FALSE>>>>, cons |-> "frequent"],
       [ante |-> <<<<"ovc", "frequent", FALSE>>, <<"sp2", "breach", FALSE>>, <<"splow", "probably", FALSE>>, <<"slope", "probably", FALSE>>>>, cons |-> "occasional"],
       [ante |-> <<<<"ovc", "frequent", FALSE>>, <<"sp2", "oblowout", FALSE>>, <<"splow", "can", FALSE>>, <<"slope", "flat", FALSE>>>>, cons |-> "occasional"],
       [ante |-> <<<<"ovc", "frequent", FALSE>>, <<"sp2", "oblowout", FALSE>>, <<"splow", "can", FALSE>>, <<"slope", "can", FALSE>>>>, cons |-> "frequent"],
       [ante |-> <<<<"ovc", "frequent", FALSE>>, <<"sp2", "oblowout", FALSE>>, <<"splow", "can", FALSE>>, <<"slope", "probably", FALSE>>>>, cons |-> "occasional"],
       [ante |-> <<<<"ovc", "frequent", FALSE>>, <<"sp2", "oblowout", FALSE>>, <<"splow", "probably", FALSE>>, <<"slope", "flat", FALSE>>>>, cons |-> "rare"],
       [ante |-> <<<<"ovc", "frequent", FALSE>>, <<"sp2", "oblowout", FALSE>>, <<"splow", "probably", FALSE>>, <<"slope", "can", FALSE>>>>, cons |-> "occasional"],
       [ante |-> <<<<"ovc", "frequent", FALSE>>, <<"sp2", "oblowout", FALSE>>, <<"splow", "probably", FALSE>>, <<"slope", "probably", FALSE>>>>, cons |-> "rare"],
       [ante |-> <<<<"ovc", "frequent", FALSE>>, <<"sp2", "blowout", FALSE>>, <<"splow", "can", FALSE>>, <<"slope", "flat", FALSE>>>>, cons |-> "rare"],
       [ante |-> <<<<"ovc", "frequent", FALSE>>, <<"sp2", "blowout", FALSE>>, <<"splow", "can", FALSE>>, <<"slope", "can", FALSE>>>>, cons |-> "rare"],
       [ante |-> <<<<"ovc", "frequent", FALSE>>, <<"sp2", "blowout", FALSE>>, <<"splow", "can", FALSE>>, <<"slope", "probably", FALSE>>>>, cons |-> "rare"],
       [ante |-> <<<<"ovc", "frequent", FALSE>>, <<"sp2", "blowout", FALSE>>, <<"splow", "probably", FALSE>>, <<"slope", "flat", FALSE>>>>, cons |-> "rare"],
       [ante |-> <<<<"ovc", "frequent", FALSE>>, <<"sp2", "blowout", FALSE>>, <<"splow", "probably", FALSE>>, <<"slope", "can", FALSE>>>>, cons |-> "rare"],
       [ante |-> <<<<"ovc", "frequent", FALSE>>, <<"sp2", "blowout", FALSE>>, <<"splow", "probably", FALSE>>, <<"slope", "probably", FALSE>>>>, cons |-> "none"],
       [ante |-> <<<<"ovc", "pervasive", FALSE>>, <<"sp2", "persists", FALSE>>, <<"splow", "can", FALSE>>, <<"slope", "flat", FALSE>>>>, cons |-> "frequent"],
       [ante |-> <<<<"ovc", "pervasive", FALSE>>, <<"sp2", "persists", FALSE>>, <<"splow", "can", FALSE>>, <<"slope", "can", FALSE>>>>, cons |-> "pervasive"],
       [ante |-> <<<<"ovc", "pervasive", FALSE>>, <<"sp2", "persists", FALSE>>, <<"splow", "can", FALSE>>, <<"slope", "probably", FALSE>>>>, cons |-> "occasional"],
       [ante |-> <<<<"ovc", "pervasive", FALSE>>, <<"sp2", "persists", FALSE>>, <<"splow", "probably", FALSE>>, <<"slope", "flat", FALSE>>>>, cons |-> "frequent"],
       [ante |-> <<<<"ovc", "pervasive", FALSE>>, <<"sp2", "persists", FALSE>>, <<"splow", "probably", FALSE>>, <<"slope", "can", FALSE>>>>, cons |-> "pervasive"],
       [ante |-> <<<<"ovc", "pervasive", FALSE>>, <<"sp2", "persists", FALSE>>, <<"splow", "probably", FALSE>>, <<"slope", "probably", FALSE>>>>, cons |-> "frequent"],
       [ante |-> <<<<"ovc", "pervasive", FALSE>>, <<"sp2", "breach", FALSE>>, <<"splow", "can", FALSE>>, <<"slope", "flat", FALSE>>>>, cons |-> "occasional"],
       [ante |-> <<<<"ovc", "pervasive", FALSE>>, <<"sp2", "breach", FALSE>>, <<"splow", "can", FALSE>>, <<"slope", "can", FALSE>>>>, cons |-> "frequent"],
       [ante |-> <<<<"ovc", "pervasive", FALSE>>, <<"sp2", "breach", FALSE>>, <<"splow", "can", FALSE>>, <<"slope", "probably", FALSE>>>>, cons |-> "occasional"],
       [ante |-> <<<<"ovc", "pervasive", FALSE>>, <<"sp2", "breach", FALSE>>, <<"splow", "probably", FALSE>>, <<"slope", "flat", FALSE>>>>, cons |-> "occasional"],
       [ante |-> <<<<"ovc", "pervasive", FALSE>>, <<"sp2", "breach", FALSE>>, <<"splow", "probably", FALSE>>, <<"slope", "can", FALSE>>>>, cons |-> "frequent"],
       [ante |-> <<<<"ovc", "pervasive", FALSE>>, <<"sp2", "breach", FALSE>>, <<"splow", "probably", FALSE>>, <<"slope", "probably", FALSE>>>>, cons |-> "occasional"],
       [ante |-> <<<<"ovc", "pervasive", FALSE>>, <<"sp2", "oblowout", FALSE>>, <<"splow", "can", FALSE>>, <<"slope", "flat", FALSE>>>>, cons |-> "occasional"],
       [ante |-> <<<<"ovc", "pervasive", FALSE>>, <<"sp2", "oblowout", FALSE>>, <<"splow", "can", FALSE>>, <<"slope", "can", FALSE>>>>, cons |-> "frequent"],
       [ante |-> <<<<"ovc", "pervasive", FALSE>>, <<"sp2", "oblowout", FALSE>>, <<"splow", "can", FALSE>>, <<"slope", "probably", FALSE>>>>, cons |-> "occasional"],
       [ante |-> <<<<"ovc", "pervasive", FALSE>>, <<"sp2", "oblowout", FALSE>>, <<"splow", "probably", FALSE>>, <<"slope", "flat", FALSE>>>>, cons |-> "occasional"],
       [ante |-> <<<<"ovc", "pervasive", FALSE>>, <<"sp2", "oblowout", FALSE>>, <<"splow", "probably", FALSE>>, <<"slope", "can", FALSE>>>>, cons |-> "occasional"],
       [ante |-> <<<<"ovc", "pervasive", FALSE>>, <<"sp2", "oblowout", FALSE>>, <<"splow", "probably", FALSE>>, <<"slope", "probably", FALSE>>>>, cons |-> "rare"],
       [ante |-> <<<<"ovc", "pervasive", FALSE>>, <<"sp2", "blowout", FALSE>>, <<"splow", "can", FALSE>>, <<"slope", "flat", FALSE>>>>, cons |-> "rare"],
       [ante |-> <<<<"ovc", "pervasive", FALSE>>, <<"sp2", "blowout", FALSE>>, <<"splow", "can", FALSE>>, <<"slope", "can", FALSE>>>>, cons |-> "occasional"],
       [ante |-> <<<<"ovc", "pervasive", FALSE>>, <<"sp2", "blowout", FALSE>>, <<"splow", "can", FALSE>>, <<"slope", "probably", FALSE>>>>, cons |-> "rare"],
       [ante |-> <<<<"ovc", "pervasive", FALSE>>, <<"sp2", "blowout", FALSE>>, <<"splow", "probably", FALSE>>, <<"slope", "flat", FALSE>>>>, cons |-> "rare"],
       [ante |-> <<<<"ovc", "pervasive", FALSE>>, <<"sp2", "blowout", FALSE>>, <<"splow", "probably", FALSE>>, <<"slope", "can", FALSE>>>>, cons |-> "rare"],
       [ante |-> <<<<"ovc", "pervasive", FALSE>>, <<"sp2", "blowout", FALSE>>, <<"splow", "probably", FALSE>>, <<"slope", "probably", FALSE>>>>, cons |-> "rare"] >>

----------------------------------------------------------------------------
\* Vegetation stage: membership functions of riparian and streamside

Suit(n, d) == (n * SuitUnit) \div d

\* np.arange(0, 4, 0.01)
veg_universes ==
    [riparian |-> <<0, Suit(4, 1) - Suit(1, 100)>>,
     streamside |-> <<0, Suit(4, 1) - Suit(1, 100)>>]

tri_centers ==
    [barely |-> <<Suit(1, 10), Suit(1, 1), Suit(2, 1)>>,
     moderately |-> <<Suit(1, 1), Suit(2, 1), Suit(3, 1)>>,
     suitable |-> <<Suit(2, 1), Suit(3, 1), Suit(4, 1)>>,
     preferred |-> <<Suit(3, 1), Suit(4, 1), Suit(4, 1)>>]

\* a0, b0, c0, d0 of the 'scale' branch
unsuitable_base == <<0, 0, Suit(1, 10), Suit(1, 1)>>

\* the breakpoints the 'scale' branch computes (one set, used for both inputs)
veg_pts(adj_val) ==
    LET a0 == unsuitable_base[1]  b0 == unsuitable_base[2]
        c0 == unsuitable_base[3]  d0 == unsuitable_base[4]
        a1 == b0 - Times(b0 - a0, adj_val)
        d1 == c0 + Times(d0 - c0, adj_val)
    IN [cat \in {"unsuitable"} \cup DOMAIN tri_centers |->
          IF cat = "unsuitable" THEN <<a1, b0, c0, d1>>
          ELSE scale_triangle(tri_centers[cat], adj_val)]

\* the terms of one input variable of calculate_vegetation_fis_custom
veg_input_terms(adj_type, adj_val) ==
    IF adj_type = "scale"
    THEN [cat \in DOMAIN veg_pts(adj_val) |->
            IF cat = "unsuitable" THEN trapmf(veg_pts(adj_val)[cat])
            ELSE trimf(veg_pts(adj_val)[cat])]
    ELSE IF adj_type = "shape" /\ RatEq(adj_val, 1)
    THEN [unsuitable |-> pimf(<<-Suit(1, 100), 0, Suit(1, 10), Suit(1, 1)>>),
          barely |-> gaussmf(Suit(1, 1), Suit(4, 10)),
          moderately |-> gaussmf(Suit(2, 1), Suit(4, 10)),
          suitable |-> gaussmf(Suit(3, 1), Suit(4, 10)),
          preferred |-> gaussmf(Suit(4, 1), Suit(4, 10))]
    ELSE IF adj_type = "shape" /\ RatEq(adj_val, 2)
    THEN [unsuitable |-> gbellmf(Suit(4, 10), 2 * 2, Suit(1, 10)),
          barely |-> gaussmf(Suit(1, 1), Suit(4, 10)),
          moderately |-> gaussmf(Suit(2, 1), Suit(4, 10)),
          suitable |-> gaussmf(Suit(3, 1), Suit(4, 10)),
          preferred |-> gaussmf(Suit(4, 1), Suit(4, 10))]
    ELSE \* no term is defined: building the rule table raises
         [cat \in {"unsuitable"} \cup DOMAIN tri_centers |-> Raised("ValueError")]

veg_build_order ==
    << <<"riparian", "unsuitable">>, <<"streamside", "unsuitable">>,
       <<"riparian", "barely">>, <<"streamside", "barely">>,
       <<"riparian", "moderately">>, <<"streamside", "moderately">>,
       <<"riparian", "suitable">>, <<"streamside", "suitable">>,
       <<"riparian", "preferred">>, <<"streamside", "preferred">> >>

veg_terms_custom(adj_type, adj_val) ==
    [riparian |-> veg_input_terms(adj_type, adj_val),
     streamside |-> veg_input_terms(adj_type, adj_val)]

\* calculate_vegegtation_fis: the standard membership functions
veg_terms ==
    [riparian |-> [unsuitable |-> trapmf(<<0, 0, Suit(1, 10), Suit(1, 1)>>),
                   barely |-> trimf(<<Suit(1, 10), Suit(1, 1), Suit(2, 1)>>),
                   moderately |-> trimf(<<Suit(1, 1), Suit(2, 1), Suit(3, 1)>>),
                   suitable |-> trimf(<<Suit(2, 1), Suit(3, 1), Suit(4, 1)>>),
                   preferred |-> trimf(<<Suit(3, 1), Suit(4, 1), Suit(4, 1)>>)],
     streamside |-> [unsuitable |-> trapmf(<<0, 0, Suit(1, 10), Suit(1, 1)>>),
                     barely |-> trimf(<<Suit(1, 10), Suit(1, 1), Suit(2, 1)>>),
                     moderately |-> trimf(<<Suit(1, 1), Suit(2, 1), Suit(3, 1)>>),
                     suitable |-> trimf(<<Suit(2, 1), Suit(3, 1), Suit(4, 1)>>),
                     preferred |-> trimf(<<Suit(3, 1), Suit(4, 1), Suit(4, 1)>>)]]

\* a rule table without the rules for the 'preferred' categories
veg_ctrl_no_preferred ==
    [k \in 1..16 |->
        [ante |-> << <<"riparian", <<"unsuitable", "barely", "moderately", "suitable">>[((k - 1) % 4) + 1], FALSE>>,
                     <<"streamside", <<"unsuitable", "barely", "moderately", "suitable">>[((k - 1) \div 4) + 1], FALSE>> >>,
         cons |-> "occasional"]]

\* rule table of calculate_vegetation_fis_custom
veg_ctrl_custom ==
    << [ante |-> <<<<"riparian", "unsuitable", FALSE>>, <<"streamside", "unsuitable", FALSE>>>>, cons |-> "none"],
       [ante |-> <<<<"riparian", "barely", FALSE>>, <<"streamside", "unsuitable", FALSE>>>>, cons |-> "rare"],
       [ante |-> <<<<"riparian", "moderately", FALSE>>, <<"streamside", "unsuitable", FALSE>>>>, cons |-> "rare"],
       [ante |-> <<<<"riparian", "suitable", FALSE>>, <<"streamside", "unsuitable", FALSE>>>>, cons |-> "occasional"],
       [ante |-> <<<<"riparian", "preferred", FALSE>>, <<"streamside", "unsuitable", FALSE>>>>, cons |-> "occasional"],
       [ante |-> <<<<"riparian", "unsuitable", FALSE>>, <<"streamside", "barely", FALSE>>>>, cons |-> "rare"],
       [ante |-> <<<<"riparian", "barely", FALSE>>, <<"streamside", "barely", FALSE>>>>, cons |-> "rare"],
       [ante |-> <<<<"riparian", "moderately", FALSE>>, <<"streamside", "barely", FALSE>>>>, cons |-> "occasional"],
       [ante |-> <<<<"riparian", "suitable", FALSE>>, <<"streamside", "barely", FALSE>>>>, cons |-> "occasional"],
       [ante |-> <<<<"riparian", "preferred", FALSE>>, <<"streamside", "barely", FALSE>>>>, cons |-> "occasional"],
       [ante |-> <<<<"riparian", "unsuitable", FALSE>>, <<"streamside", "moderately", FALSE>>>>, cons |-> "rare"],
       [ante |-> <<<<"riparian", "barely", FALSE>>, <<"streamside", "moderately", FALSE>>>>, cons |-> "occasional"],
       [ante |-> <<<<"riparian", "moderately", FALSE>>, <<"streamside", "moderately", FALSE>>>>, cons |-> "occasional"],
       [ante |-> <<<<"riparian", "suitable", FALSE>>, <<"streamside", "moderately", FALSE>>>>, cons |-> "frequent"],
       [ante |-> <<<<"riparian", "preferred", FALSE>>, <<"streamside", "moderately", FALSE>>>>, cons |-> "frequent"],
       [ante |-> <<<<"riparian", "unsuitable", FALSE>>, <<"streamside", "suitable", FALSE>>>>, cons |-> "occasional"],
       [ante |-> <<<<"riparian", "barely", FALSE>>, <<"streamside", "suitable", FALSE>>>>, cons |-> "occasional"],
       [ante |-> <<<<"riparian", "moderately", FALSE>>, <<"streamside", "suitable", FALSE>>>>, cons |-> "frequent"],
       [ante |-> <<<<"riparian", "suitable", FALSE>>, <<"streamside", "suitable", FALSE>>>>, cons |-> "frequent"],
       [ante |-> <<<<"riparian", "preferred", FALSE>>, <<"streamside", "suitable", FALSE>>>>, cons |-> "pervasive"],
       [ante |-> <<<<"riparian", "unsuitable", FALSE>>, <<"streamside", "preferred", FALSE>>>>, cons |-> "occasional"],
       [ante |-> <<<<"riparian", "barely", FALSE>>, <<"streamside", "preferred", FALSE>>>>, cons |-> "frequent"],
       [ante |-> <<<<"riparian", "moderately", FALSE>>, <<"streamside", "preferred", FALSE>>>>, cons |-> "pervasive"],
       [ante |-> <<<<"riparian", "suitable", FALSE>>, <<"streamside", "preferred", FALSE>>>>, cons |-> "pervasive"],
       [ante |-> <<<<"riparian", "preferred", FALSE>>, <<"streamside", "preferred", FALSE>>>>, cons |-> "pervasive"] >>

\* rule table of calculate_vegegtation_fis
veg_ctrl ==
    << [ante |-> <<<<"riparian", "unsuitable", FALSE>>, <<"streamside", "unsuitable", FALSE>>>>, cons |-> "none"],
       [ante |-> <<<<"riparian", "barely", FALSE>>, <<"streamside", "unsuitable", FALSE>>>>, cons |-> "rare"],
       [ante |-> <<<<"riparian", "moderately", FALSE>>, <<"streamside", "unsuitable", FALSE>>>>, cons |-> "rare"],
       [ante |-> <<<<"riparian", "suitable", FALSE>>, <<"streamside", "unsuitable", FALSE>>>>, cons |-> "occasional"],
       [ante |-> <<<<"riparian", "preferred", FALSE>>, <<"streamside", "unsuitable", FALSE>>>>, cons |-> "occasional"],
       [ante |-> <<<<"riparian", "unsuitable", FALSE>>, <<"streamside", "barely", FALSE>>>>, cons |-> "rare"],
       [ante |-> <<<<"riparian", "barely", FALSE>>, <<"streamside", "barely", FALSE>>>>, cons |-> "rare"],
       [ante |-> <<<<"riparian", "moderately", FALSE>>, <<"streamside", "barely", FALSE>>>>, cons |-> "occasional"],
       [ante |-> <<<<"riparian", "suitable", FALSE>>, <<"streamside", "barely", FALSE>>>>, cons |-> "occasional"],
       [ante |-> <<<<"riparian", "preferred", FALSE>>, <<"streamside", "barely", FALSE>>>>, cons |-> "occasional"],
       [ante |-> <<<<"riparian", "unsuitable", FALSE>>, <<"streamside", "moderately", FALSE>>>>, cons |-> "rare"],
       [ante |-> <<<<"riparian", "barely", FALSE>>, <<"streamside", "moderately", FALSE>>>>, cons |-> "occasional"],
       [ante |-> <<<<"riparian", "moderately", FALSE>>, <<"streamside", "moderately", FALSE>>>>, cons |-> "occasional"],
       [ante |-> <<<<"riparian", "suitable", FALSE>>, <<"streamside", "moderately", FALSE>>>>, cons |-> "frequent"],
       [ante |-> <<<<"riparian", "preferred", FALSE>>, <<"streamside", "moderately", FALSE>>>>, cons |-> "frequent"],
       [ante |-> <<<<"riparian", "unsuitable", FALSE>>, <<"streamside", "suitable", FALSE>>>>, cons |-> "occasional"],
       [ante |-> <<<<"riparian", "barely", FALSE>>, <<"streamside", "suitable", FALSE>>>>, cons |-> "occasional"],
       [ante |-> <<<<"riparian", "moderately", FALSE>>, <<"streamside", "suitable", FALSE>>>>, cons |-> "frequent"],
       [ante |-> <<<<"riparian", "suitable", FALSE>>, <<"streamside", "suitable", FALSE>>>>, cons |-> "frequent"],
       [ante |-> <<<<"riparian", "preferred", FALSE>>, <<"streamside", "suitable", FALSE>>>>, cons |-> "pervasive"],
       [ante |-> <<<<"riparian", "unsuitable", FALSE>>, <<"streamside", "preferred", FALSE>>>>, cons |-> "occasional"],
       [ante |-> <<<<"riparian", "barely", FALSE>>, <<"streamside", "preferred", FALSE>>>>, cons |-> "frequent"],
       [ante |-> <<<<"riparian", "moderately", FALSE>>, <<"streamside", "preferred", FALSE>>>>, cons |-> "pervasive"],
       [ante |-> <<<<"riparian", "suitable", FALSE>>, <<"streamside", "preferred", FALSE>>>>, cons |-> "pervasive"],
       [ante |-> <<<<"riparian", "preferred", FALSE>>, <<"streamside", "preferred", FALSE>>>>, cons |-> "pervasive"] >>

----------------------------------------------------------------------------
\* Rounding and the reclassification thresholds

\* Python round(x, 2) of a value in CapUnit: to the nearest hundredth, ties to even
Round2(x) ==
    LET step == CapUnit \div 100
        q == x \div step
        r == x % step
    IN IF 2 * r > step \/ (2 * r = step /\ q % 2 = 1) THEN (q + 1) * step ELSE q * step

\* Python round(x) of a value in CapUnit, as a whole number
Round0(x) ==
    LET q == x \div CapUnit
        r == x % CapUnit
    IN IF 2 * r > CapUnit \/ (2 * r = CapUnit /\ q % 2 = 1) THEN q + 1 ELSE q

\* a reference centroid no result is equal to
centroid_unset == 0 - 2

\* round(fuzz.defuzz(x_vals, trimf(x_vals, [0, 0, 0.1]), 'centroid'), 6)
defuzz_centroid ==
    defuzz([none |-> Full, rare |-> Zero, occasional |-> Zero, frequent |-> Zero, pervasive |-> Zero])

\* round(fuzz.defuzz(x_vals, trapmf(x_vals, [12, 25, 45, 45]), 'centroid'))
defuzz_pervasive ==
    Round0(defuzz([none |-> Zero, rare |-> Zero, occasional |-> Zero, frequent |-> Zero, pervasive |-> Full]))

----------------------------------------------------------------------------
\* The loop bodies.  NoOutput stands for the ValueError that compute() raises
\* when no rule fires (the aggregated output has no area).

NoOutput == NoArea

\* no reclassification of the result
reclass_skipped(result) == result

\* vegetation loop body: reclassify 'none' to 0 and 'pervasive' to 40
\* `if round(result, 6) == defuzz_centroid: result = 0.0`
reclass_none(result) == IF result = defuzz_centroid THEN 0 ELSE result

\* `if round(result) >= defuzz_pervasive: result = 40.0`
reclass_pervasive(result) == IF Round0(result) >= defuzz_pervasive THEN Cap(40, 1) ELSE result

veg_reclass(result) ==
    IF result < 0 THEN NoOutput ELSE reclass_pervasive(reclass_none(result))

\* veg_fis.compute() and the reclassification of its result
veg_result(rules, terms, a) ==
    veg_reclass(compute(rules, terms, veg_universes,
                        [riparian |-> a.riparian, streamside |-> a.streamside]))

\* `not max_drainage_area`
NotConfigured(max_drainage_area) == max_drainage_area.isNone \/ max_drainage_area.num = 0

\* comb_fis.compute() for one reach
comb_result(rules, terms, a) ==
    compute(rules, terms, comb_universes,
            [ovc |-> a.veg, sp2 |-> a.hydq2, splow |-> a.hydlow, slope |-> a.slope])

\* `if capacity > veg_array[i]` and the reclassification of 'none' to 0
comb_reclass(result, veg) ==
    IF result < 0 THEN NoOutput
    ELSE reclass_none(IF result > veg THEN veg ELSE result)

\* the FIS result without the limit
unlimited_capacity(rules, terms, a) ==
    comb_reclass(comb_result(rules, terms, a), Cap(45, 1))

\* FIS result limited by the vegetation capacity, 'none' reclassified to 0
limited_capacity(rules, terms, a) ==
    comb_reclass(comb_result(rules, terms, a), a.veg)

\* the two branches of the loop body that evaluate the FIS, else 0.0
comb_branch(capacity, a, max_drainage_area) ==
    IF NotConfigured(max_drainage_area) \/ a.drain < InUnit(max_drainage_area, 1)
    THEN capacity
    ELSE IF a.drain >= InUnit(max_drainage_area, 1) /\ a.reachcode = 33600
    THEN capacity
    ELSE 0

\* a loop body that still evaluates a reach whose drainage area equals the maximum
comb_capacity_above(rules, terms, a, max_drainage_area) ==
    IF NotConfigured(max_drainage_area) \/ a.drain <= InUnit(max_drainage_area, 1)
       \/ a.reachcode = 33600
    THEN limited_capacity(rules, terms, a)
    ELSE 0

\* a loop body without the reach-code exception
comb_capacity_no_exception(rules, terms, a, max_drainage_area) ==
    IF NotConfigured(max_drainage_area) \/ a.drain < InUnit(max_drainage_area, 1)
    THEN limited_capacity(rules, terms, a)
    ELSE 0

\* a loop body that takes only a missing maximum, not a maximum of 0, as no
\* maximum
comb_capacity_zero_gates(rules, terms, a, max_drainage_area) ==
    IF max_drainage_area.isNone \/ a.drain < InUnit(max_drainage_area, 1)
       \/ a.reachcode = 33600
    THEN limited_capacity(rules, terms, a)
    ELSE 0

\* the branch of the loop body a reach takes: the `if`, the `elif`, or neither
comb_case(a, max_drainage_area) ==
    IF NotConfigured(max_drainage_area) \/ a.drain < InUnit(max_drainage_area, 1)
    THEN "evaluated"
    ELSE IF a.drain >= InUnit(max_drainage_area, 1) /\ a.reachcode = 33600
    THEN "exception"
    ELSE "zero"

\* combined loop body: the capacity before it is rounded
comb_capacity(rules, terms, a, max_drainage_area) ==
    comb_branch(limited_capacity(rules, terms, a), a, max_drainage_area)

\* capacity * (iGeo_Len / 1000.0), in CapUnit
raw_count(capacity, iGeo_Len) ==
    (capacity \div 1000) * iGeo_Len + ((capacity % 1000) * iGeo_Len) \div 1000

\* a count that is never forced up
dam_count_raw(capacity, iGeo_Len) == raw_count(capacity, iGeo_Len)

\* count = 1.0 if 0 < count < 1 else count
dam_count(capacity, iGeo_Len) ==
    LET count == raw_count(capacity, iGeo_Len)
        positive == (capacity > 0 /\ iGeo_Len > 0) \/ (capacity < 0 /\ iGeo_Len < 0)
    IN IF positive /\ count < CapUnit THEN CapUnit ELSE count

----------------------------------------------------------------------------
\* The entry points vegetation_fis_custom and combined_fis_custom

adjustment_types == [veg |-> {"scale", "shape"}, comb |-> {"shift", "scale", "shape"}]

\* default_adj_vals
default_adj_vals == [shift |-> Rat(0, 1), scale |-> Rat(1, 1), shape |-> Rat(0, 1)]

streamside_field == "iVeg_30EX"
riparian_field == "iVeg100EX"
veg_fis_field == "oVC_EX"
capacity_field == "oCC_EX"
dam_count_field == "mCC_EX_CT"

\* the fields each entry point loads, and the fields it writes
fields ==
    [veg |-> {streamside_field, riparian_field},
     comb |-> {veg_fis_field, "iGeo_Slope", "iGeo_DA", "iHyd_SP2", "iHyd_SPLow", "iGeo_Len", "ReachCode"}]

out_fields == [veg |-> {veg_fis_field}, comb |-> {capacity_field, dam_count_field}]

\* `if adjustment_type:`
Adjusting(a) == a.adjustment_type # "None"

\* the exception the parameter handling of vegetation_fis_custom raises, or "none"
veg_validation(a) ==
    LET v == a.vals[1] IN
    IF ~Adjusting(a) THEN "none"
    ELSE IF a.adjustment_type \notin adjustment_types.veg THEN "ValueError"
    ELSE IF a.adjustment_type = "scale" /\ v.isNone THEN "TypeError"
    ELSE IF a.adjustment_type = "scale" /\ RatLeqZero(v) THEN "ValueError"
    ELSE IF a.adjustment_type = "shape" /\ ~RatEq(v, 1) /\ ~RatEq(v, 2) THEN "ValueError"
    ELSE "none"

\* one pass of `for val in [spl_adj_val, sp2_adj_val, slo_adj_val]`
comb_val_check(adjustment_type, val) ==
    IF adjustment_type = "shape" /\ ~RatEq(val, 1) /\ ~RatEq(val, 2) /\ ~RatEq(val, 0 - 1)
    THEN "ValueError"
    ELSE IF adjustment_type = "scale" /\ val.isNone THEN "TypeError"
    ELSE IF adjustment_type = "scale" /\ RatLeqZero(val) THEN "ValueError"
    ELSE "none"

\* the exception the parameter handling of combined_fis_custom raises, or "none"
comb_validation(a) ==
    LET bad == {k \in 1..3 : comb_val_check(a.adjustment_type, a.vals[k]) # "none"} IN
    IF ~Adjusting(a) THEN "none"
    ELSE IF a.adjustment_type \notin adjustment_types.comb THEN "ValueError"
    ELSE IF bad = {} THEN "none"
    ELSE comb_val_check(a.adjustment_type, a.vals[SetMin(bad)])

\* the value given for the variable, whatever the adjustment type is
param_given(a, k, kind) ==
    IF ~a.vals[k].isNone THEN a.vals[k] ELSE default_adj_vals[kind]

\* `x_adj_val if x_adj_val is not None else default_adj_vals[kind]` when the
\* adjustment is of that kind, the default otherwise
param_of(a, k, kind) ==
    IF a.adjustment_type = kind /\ ~a.vals[k].isNone THEN a.vals[k] ELSE default_adj_vals[kind]

\* the nine parameters handed to calculate_combined_fis_custom; a shift is kept
\* in the unit of its variable
comb_params(a) ==
    [spl_shift |-> InUnit(param_of(a, 1, "shift"), SPUnit),
     spl_scale |-> param_of(a, 1, "scale"),
     spl_shape |-> param_of(a, 1, "shape"),
     sp2_shift |-> InUnit(param_of(a, 2, "shift"), SPUnit),
     sp2_scale |-> param_of(a, 2, "scale"),
     sp2_shape |-> param_of(a, 2, "shape"),
     slo_shift |-> InUnit(param_of(a, 3, "shift"), SlopeUnit),
     slo_scale |-> param_of(a, 3, "scale"),
     slo_shape |-> param_of(a, 3, "shape")]

\* adj_type, adj_val handed to calculate_vegetation_fis_custom
veg_params(a) == [adj_type |-> a.adjustment_type, adj_val |-> a.vals[1]]

\* load_attributes / load_dgo_attributes: the rows in which every requested
\* field IS NOT NULL, restricted to the requested fields
load_attributes(db, fs) ==
    [r \in {x \in DOMAIN db : fs \subseteq DOMAIN db[x]} |-> [f \in fs |-> db[r][f]]]

\* write_db_attributes / write_db_dgo_attributes: store the output fields of
\* every reach of the batch
write_db_attributes(db, fv, outs) ==
    [r \in DOMAIN db |->
        IF r \in DOMAIN fv
        THEN [f \in DOMAIN db[r] \cup outs |-> IF f \in outs THEN fv[r][f] ELSE db[r][f]]
        ELSE db[r]]

\* the reach the loop handles after k reaches: dicts keep the order of the query
RECURSIVE NthId(_, _)
NthId(ids, k) == IF k = 0 THEN SetMin(ids) ELSE NthId(ids \ {SetMin(ids)}, k - 1)

\* arrays in which every reach has the values of the first reach of the batch
veg_arrays_shared(fv) ==
    [r \in DOMAIN fv |->
        [riparian |-> Max2(0, Min2(Suit(4, 1), fv[SetMin(DOMAIN fv)][riparian_field])),
         streamside |-> Max2(0, Min2(Suit(4, 1), fv[SetMin(DOMAIN fv)][streamside_field]))]]

\* the clamped input arrays
veg_arrays(fv) ==
    [r \in DOMAIN fv |->
        [riparian |-> Max2(0, Min2(Suit(4, 1), fv[r][riparian_field])),
         streamside |-> Max2(0, Min2(Suit(4, 1), fv[r][streamside_field]))]]

\* the arrays as they are before the "Adjust inputs" statements
comb_arrays_unadjusted(fv) ==
    [r \in DOMAIN fv |->
        [reachcode |-> fv[r]["ReachCode"],
         veg |-> fv[r][veg_fis_field],
         hydq2 |-> fv[r]["iHyd_SP2"],
         hydlow |-> fv[r]["iHyd_SPLow"],
         slope |-> fv[r]["iGeo_Slope"],
         drain |-> fv[r]["iGeo_DA"]]]

comb_arrays(fv) ==
    [r \in DOMAIN fv |->
        [reachcode |-> fv[r]["ReachCode"],
         veg |-> Max2(0, Min2(Cap(45, 1), fv[r][veg_fis_field])),
         hydq2 |-> IF fv[r]["iHyd_SP2"] < 0 THEN SPUnit \div 10000 ELSE Min2(W(10000), fv[r]["iHyd_SP2"]),
         hydlow |-> IF fv[r]["iHyd_SPLow"] < 0 THEN SPUnit \div 10000 ELSE Min2(W(10000), fv[r]["iHyd_SPLow"]),
         slope |-> Min2(Slo(1, 1), fv[r]["iGeo_Slope"]),
         drain |-> fv[r]["iGeo_DA"]]]

----------------------------------------------------------------------------
\* Inputs: the reach table of the database and the arguments of the call

MaxReaches == 2

\* rows of a database the vegetation stage runs on (suitability in SuitUnit);
\* row 7 has no riparian value, row 8 is a little above unsuitable on both
\* sides
VegRows ==
    << (streamside_field :> Suit(4, 1)) @@ (riparian_field :> Suit(4, 1)),
       (streamside_field :> 0) @@ (riparian_field :> 0),
       (streamside_field :> Suit(5, 2)) @@ (riparian_field :> Suit(1, 2)),
       (streamside_field :> Suit(3, 1)) @@ (riparian_field :> Suit(2, 1)),
       (streamside_field :> Suit(5, 1)) @@ (riparian_field :> 0 - Suit(1, 1)),
       (streamside_field :> Suit(12, 10)) @@ (riparian_field :> Suit(33, 10)),
       (streamside_field :> Suit(3, 2)),
       (streamside_field :> Suit(3, 10)) @@ (riparian_field :> Suit(3, 10)) >>

CombRow(ovc, slope, da, sp2, splow, len, code) ==
    (veg_fis_field :> ovc) @@ ("iGeo_Slope" :> slope) @@ ("iGeo_DA" :> da) @@
    ("iHyd_SP2" :> sp2) @@ ("iHyd_SPLow" :> splow) @@ ("iGeo_Len" :> len) @@
    ("ReachCode" :> code)

\* rows of a database the combined stage runs on; row 6 has no slope,
\* row 7 a negative one and a baseflow power no dam stands, row 8 a slope no
\* dam is built on
CombRows ==
    << CombRow(Cap(40, 1), Slo(5, 100), 50, W(500), W(100), 1000, 46006),
       CombRow(Cap(36, 1000), Slo(2, 1000), 100, W(1100), W(160), 300, 46006),
       CombRow(Cap(10, 1), Slo(13, 100), 150, W(1700), W(185), 1500, 33600),
       CombRow(0 - Cap(1, 1), Slo(3, 2), 20, 0 - W(5), W(12000), 500, 46006),
       CombRow(Cap(1, 2), Slo(5, 100), 50, W(500), W(100), 300, 46006),
       (veg_fis_field :> Cap(8, 1)) @@ ("iGeo_DA" :> 50) @@ ("iHyd_SP2" :> W(500)) @@
       ("iHyd_SPLow" :> W(100)) @@ ("iGeo_Len" :> 1000) @@ ("ReachCode" :> 46006),
       CombRow(Cap(10, 1), 0 - Slo(1, 100), 50, W(500), W(200), 1000, 46006),
       CombRow(Cap(20, 1), Slo(1, 2), 50, W(500), W(100), 1000, 46006) >>

Rows == [veg |-> VegRows, comb |-> CombRows]

\* the databases: row k, when present, is the reach with ReachID k
Databases(st) ==
    {[r \in ids |-> Rows[st][r]] :
        ids \in {x \in SUBSET (1..Len(Rows[st])) : Cardinality(x) <= MaxReaches}}

ShiftVals == {None, Rat(0, 1), Rat(1, 50)}
ScaleVals == {None, Rat(0, 1), Rat(1, 1), Rat(2, 1)}
ShapeVals == {None, Rat(0 - 1, 1), Rat(1, 1), Rat(2, 1), Rat(3, 1)}
VegVals == {None, Rat(0, 1), Rat(1, 4), Rat(1, 2), Rat(1, 1), Rat(2, 1), Rat(3, 1)}
MaxDAVals == {None, Rat(0, 1), Rat(100, 1)}

Cube(S) == {<<x, y, z>> : x \in S, y \in S, z \in S}

\* adjustment_value defaults to 1.0 and is not looked at without an adjustment
VegCalls ==
    {[adjustment_type |-> tv[1], vals |-> <<tv[2]>>, max_drainage_area |-> None, dgo |-> d] :
        tv \in ({"None"} \X {Rat(1, 1)}) \cup ({"scale", "shape", "rotate"} \X VegVals),
        d \in BOOLEAN}

CombCalls ==
    {[adjustment_type |-> tv[1], vals |-> tv[2], max_drainage_area |-> m, dgo |-> d] :
        tv \in ({"None"} \X {<<None, None, None>>})
               \cup ({"rotate"} \X {<<Rat(1, 1), Rat(1, 1), Rat(1, 1)>>})
               \cup ({"shift"} \X Cube(ShiftVals))
               \cup ({"scale"} \X Cube(ScaleVals))
               \cup ({"shape"} \X Cube(ShapeVals)),
        m \in MaxDAVals, d \in BOOLEAN}

Calls == [veg |-> VegCalls, comb |-> CombCalls]

----------------------------------------------------------------------------
\* The state machine of one call of an entry point

Init ==
    /\ stage \in {"veg", "comb"}
    /\ args \in Calls[stage]
    /\ database \in Databases(stage)
    /\ pc = "called"
    /\ params = <<>>
    /\ feature_values = <<>>
    /\ arrays = <<>>
    /\ pts = <<>>
    /\ mfs = <<>>
    /\ i = 0
    /\ err = "none"

\* the parameter handling at the top of the entry point
Validate ==
    /\ pc = "called"
    /\ LET e == IF stage = "veg" THEN veg_validation(args) ELSE comb_validation(args) IN
       /\ err' = e
       /\ pc' = IF e = "none" THEN "validated" ELSE "raised"
       /\ params' = IF e # "none" \/ ~Adjusting(args) THEN params
                    ELSE IF stage = "veg" THEN veg_params(args) ELSE comb_params(args)
    /\ UNCHANGED <<stage, args, database, feature_values, arrays, pts, mfs, i>>

\* load_attributes / load_dgo_attributes
Load ==
    /\ pc = "validated"
    /\ feature_values' = load_attributes(database, fields[stage])
    /\ pc' = "loaded"
    /\ UNCHANGED <<stage, args, params, database, arrays, pts, mfs, i, err>>

\* The call of calculate_*: combined_fis_custom names the undefined variable
\* `reaches` in its dgo branch; otherwise the arrays are filled and clamped.
Prepare ==
    /\ pc = "loaded"
    /\ IF stage = "comb" /\ args.dgo /\ Adjusting(args)
       THEN /\ err' = "NameError"
            /\ pc' = "raised"
            /\ UNCHANGED arrays
       ELSE /\ arrays' = IF stage = "veg" THEN veg_arrays(feature_values)
                         ELSE comb_arrays(feature_values)
            /\ pc' = "arrays"
            /\ UNCHANGED err
    /\ UNCHANGED <<stage, args, params, database, feature_values, pts, mfs, i>>

\* the terms the builder has assigned before the k-th generator call of `order`
\* (all of them when k is beyond the last call)
BuiltBefore(terms, order, k) ==
    LET done == {j \in 1..Len(order) : j < k}
        vs == {order[j][1] : j \in done}
    IN [v \in vs |-> [cat \in {order[j][2] : j \in {x \in done : order[x][1] = v}} |-> terms[v][cat]]]

\* index of the first generator call that raises, Len(order) + 1 when none does
FirstBad(terms, order) ==
    LET bad == {k \in 1..Len(order) : ~IsMF(terms[order[k][1]][order[k][2]])}
    IN IF bad = {} THEN Len(order) + 1 ELSE SetMin(bad)

\* the rule table and the universes of the function the entry point calls
rules_of(st, a) ==
    IF st = "veg" THEN (IF Adjusting(a) THEN veg_ctrl_custom ELSE veg_ctrl)
    ELSE (IF Adjusting(a) THEN comb_ctrl_custom ELSE comb_ctrl)

\* calculate_vegetation_fis_custom / calculate_vegegtation_fis up to the loop:
\* the membership functions of riparian and streamside
BuildVeg ==
    /\ pc = "arrays"
    /\ stage = "veg"
    /\ LET terms == IF Adjusting(args) THEN veg_terms_custom(params.adj_type, params.adj_val)
                    ELSE veg_terms
           k == FirstBad(terms, veg_build_order)
       IN /\ mfs' = BuiltBefore(terms, veg_build_order, k)
          /\ pts' = IF Adjusting(args) /\ params.adj_type = "scale"
                    THEN [v \in {"riparian", "streamside"} |-> veg_pts(params.adj_val)]
                    ELSE pts
          /\ err' = FirstRaised(terms, veg_build_order)
          /\ pc' = IF k > Len(veg_build_order) THEN "built" ELSE "raised"
    /\ UNCHANGED <<stage, args, params, database, feature_values, arrays, i>>

\* calculate_combined_fis_custom / calculate_combined_fis up to the loop: SPlow,
\* SP2 and slope are handled one after the other, each with its breakpoints
\* first and its terms next, so a raise leaves the later variables untouched
BuildComb ==
    /\ pc = "arrays"
    /\ stage = "comb"
    /\ LET terms == IF Adjusting(args) THEN comb_terms_custom(params) ELSE comb_terms
           k == FirstBad(terms, comb_build_order)
           reached == IF k > Len(comb_build_order) THEN {"splow", "sp2", "slope"}
                      ELSE {comb_build_order[j][1] : j \in 1..k}
       IN /\ mfs' = (BuiltBefore(terms, comb_build_order, k) @@ [ovc |-> ovc_terms])
          /\ pts' = IF Adjusting(args)
                    THEN [v \in reached |-> comb_pts_custom(params)[v]] ELSE pts
          /\ err' = FirstRaised(terms, comb_build_order)
          /\ pc' = IF k > Len(comb_build_order) THEN "built" ELSE "raised"
    /\ UNCHANGED <<stage, args, params, database, feature_values, arrays, i>>

\* feature_values[reach_id][out_field] = round(result, 2)
veg_outputs(result) ==
    IF result = NoOutput THEN <<>> ELSE (veg_fis_field :> Round2(result))

\* the two fields the combined loop stores
comb_outputs(capacity, iGeo_Len) ==
    IF capacity = NoOutput THEN <<>>
    ELSE (capacity_field :> Round2(capacity)) @@
         (dam_count_field :> Round2(dam_count(capacity, iGeo_Len)))

\* the outputs without the dam count
capacity_only(out) == [f \in DOMAIN out \cap {capacity_field} |-> out[f]]

\* a pass of the loop that stores no dam count
reach_outputs_capacity_only(st, a, terms, row, arr) ==
    IF st = "veg"
    THEN veg_outputs(veg_result(rules_of(st, a), terms, arr))
    ELSE capacity_only(comb_outputs(comb_capacity(rules_of(st, a), terms, arr, a.max_drainage_area),
                                    row["iGeo_Len"]))

\* what one pass of the loop stores for a reach, <<>> when compute() raises
reach_outputs(st, a, terms, row, arr) ==
    IF st = "veg"
    THEN veg_outputs(veg_result(rules_of(st, a), terms, arr))
    ELSE comb_outputs(comb_capacity(rules_of(st, a), terms, arr, a.max_drainage_area),
                      row["iGeo_Len"])

\* one pass of `for i, reach_id in enumerate(reachid_array)`
EvalReach ==
    /\ pc = "built"
    /\ i < Cardinality(DOMAIN feature_values)
    /\ \E r \in {NthId(DOMAIN feature_values, i)} :
       \E out \in {reach_outputs(stage, args, mfs, feature_values[r], arrays[r])} :
          IF out = <<>>
          THEN /\ err' = "ValueError"
               /\ pc' = "raised"
               /\ UNCHANGED <<feature_values, i>>
          ELSE /\ feature_values' = [feature_values EXCEPT ![r] = out @@ feature_values[r]]
               /\ i' = i + 1
               /\ UNCHANGED <<pc, err>>
    /\ UNCHANGED <<stage, args, params, database, arrays, pts, mfs>>

\* the loop is over: write_db_attributes / write_db_dgo_attributes
Write ==
    /\ pc = "built"
    /\ i = Cardinality(DOMAIN feature_values)
    /\ database' = write_db_attributes(database, feature_values, out_fields[stage])
    /\ pc' = "done"
    /\ UNCHANGED <<stage, args, params, feature_values, arrays, pts, mfs, i, err>>

Next ==
    \/ Validate
    \/ Load
    \/ Prepare
    \/ BuildVeg
    \/ BuildComb
    \/ EvalReach
    \/ Write

Spec == Init /\ [][Next]_vars

----------------------------------------------------------------------------
\* The membership function builder of one variable on its own: the section of
\* calculate_combined_fis_custom for SPlow, SP2 or slope, or the section of
\* calculate_vegetation_fis_custom for riparian / streamside, applied to one
\* adjustment.

BuilderShifts == {Rat(0 - 1, 5), Rat(0 - 1, 100), Rat(0, 1), Rat(1, 50), Rat(1, 10)}
BuilderScales == {Rat(1, 4), Rat(1, 2), Rat(1, 1), Rat(2, 1)}
BuilderShapes == {Rat(0 - 1, 1), Rat(1, 1), Rat(2, 1)}

BuilderArgs ==
    {[variable |-> v, kind |-> kv[1], val |-> kv[2]] :
        v \in {"splow", "sp2", "slope"},
        kv \in ({"shift"} \X BuilderShifts) \cup ({"scale"} \X BuilderScales)
               \cup ({"shape"} \X BuilderShapes)}
    \cup
    {[variable |-> v, kind |-> kv[1], val |-> kv[2]] :
        v \in {"riparian", "streamside"},
        kv \in ({"scale"} \X BuilderScales) \cup ({"shape"} \X {Rat(1, 1), Rat(2, 1)})}

UnitOf(variable) ==
    CASE variable \in {"splow", "sp2"} -> SPUnit
      [] variable = "slope" -> SlopeUnit
      [] OTHER -> SuitUnit

\* shift, scale and shape of the variable: the adjusted one from the call, the
\* others at their defaults
BuilderParams(a) ==
    [shift |-> InUnit(IF a.kind = "shift" THEN a.val ELSE default_adj_vals.shift, UnitOf(a.variable)),
     scale |-> IF a.kind = "scale" THEN a.val ELSE default_adj_vals.scale,
     shape |-> IF a.kind = "shape" THEN a.val ELSE default_adj_vals.shape]

\* the breakpoints the section computes
pts_of(variable, q, kind) ==
    CASE variable = "splow" -> splow_pts(q.shift, q.scale)
      [] variable = "sp2" -> sp2_pts(q.shift, q.scale)
      [] variable = "slope" -> slope_pts(q.shift, q.scale)
      [] OTHER -> IF kind = "scale" THEN veg_pts(q.scale) ELSE <<>>

\* the terms the section assigns
terms_of(variable, q, kind, p) ==
    CASE variable = "splow" -> splow_terms(p, q.shape)
      [] variable = "sp2" -> sp2_terms(p, q.shape)
      [] variable = "slope" -> slope_terms(p, q.shape)
      [] OTHER -> veg_input_terms(kind, IF kind = "scale" THEN q.scale ELSE q.shape)

order_of(variable) ==
    IF variable \in {"riparian", "streamside"}
    THEN SelectSeq(veg_build_order, LAMBDA t : t[1] = variable)
    ELSE SelectSeq(comb_build_order, LAMBDA t : t[1] = variable)

InitBuilder ==
    /\ stage = "builder"
    /\ args \in BuilderArgs
    /\ params = BuilderParams(args)
    /\ pc = "section"
    /\ database = <<>>
    /\ feature_values = <<>>
    /\ arrays = <<>>
    /\ pts = <<>>
    /\ mfs = <<>>
    /\ i = 0
    /\ err = "none"

\* shift applied to the base geometry, then the scaling loop
BuildPts ==
    /\ stage = "builder"
    /\ pc = "section"
    /\ pts' = (args.variable :> pts_of(args.variable, params, args.kind))
    /\ pc' = "pts"
    /\ UNCHANGED <<stage, args, params, database, feature_values, arrays, mfs, i, err>>

\* the generator calls of the section
BuildTerms ==
    /\ stage = "builder"
    /\ pc = "pts"
    /\ LET terms == (args.variable :> terms_of(args.variable, params, args.kind, pts[args.variable]))
           k == FirstBad(terms, order_of(args.variable))
       IN /\ mfs' = BuiltBefore(terms, order_of(args.variable), k)
          /\ err' = FirstRaised(terms, order_of(args.variable))
          /\ pc' = IF k > Len(order_of(args.variable)) THEN "built" ELSE "raised"
    /\ UNCHANGED <<stage, args, params, database, feature_values, arrays, pts, i>>

NextBuilder ==
    \/ BuildPts
    \/ BuildTerms

SpecBuilder == InitBuilder /\ [][NextBuilder]_vars

----------------------------------------------------------------------------
\* Properties of the combined loop (Spec)

\* the reaches of the batch the combined loop has stored its outputs for
Processed == {r \in DOMAIN feature_values : stage = "comb" /\ capacity_field \in DOMAIN feature_values[r]}

Hundredth == CapUnit \div 100

\* the reach is at or above a configured maximum drainage area
AtOrAboveMax(r) ==
    /\ ~NotConfigured(args.max_drainage_area)
    /\ feature_values[r]["iGeo_DA"] >= InUnit(args.max_drainage_area, 1)

\* C1 as stated: for every reach the combined stage has processed, under any
\* adjustment and any inputs, the recorded final capacity is at most the reach's
\* intermediate (vegetation) capacity.
C1_FinalAtMostIntermediate ==
    \A r \in Processed : feature_values[r][capacity_field] <= feature_values[r][veg_fis_field]

\* C1 amended: the recorded final capacity is at most the intermediate capacity
\* limited to [0, 45] and rounded to two decimals; it is at most the intermediate
\* capacity itself whenever that is non-negative and has at most two decimals,
\* as every output of the vegetation stage has.
C1_FinalAtMostLimitedIntermediate ==
    \A r \in Processed :
        LET ovc == feature_values[r][veg_fis_field]
            occ == feature_values[r][capacity_field]
        IN /\ occ <= Round2(Max2(0, Min2(Cap(45, 1), ovc)))
           /\ (ovc >= 0 /\ ovc % Hundredth = 0) => occ <= ovc

\* a reach whose FIS result was above its vegetation capacity and was cut to it
C1_Witness ==
    \E r \in Processed :
        /\ feature_values[r][veg_fis_field] > 0
        /\ feature_values[r][capacity_field] = feature_values[r][veg_fis_field]
        /\ unlimited_capacity(rules_of(stage, args), mfs, arrays[r]) > arrays[r].veg

\* C2: with a maximum drainage area configured, a reach at or above it whose
\* reach code is not 33600 gets final capacity 0 and dam count 0, whatever its
\* other inputs are.
C2_AboveMaxIsZero ==
    \A r \in Processed :
        (AtOrAboveMax(r) /\ feature_values[r]["ReachCode"] # 33600)
        => /\ feature_values[r][capacity_field] = 0
           /\ feature_values[r][dam_count_field] = 0

\* a reach exactly at the maximum that would have had capacity without it
C2_Witness ==
    \E r \in Processed :
        /\ AtOrAboveMax(r)
        /\ feature_values[r]["iGeo_DA"] = InUnit(args.max_drainage_area, 1)
        /\ feature_values[r]["ReachCode"] # 33600
        /\ limited_capacity(rules_of(stage, args), mfs, arrays[r]) > 0
        /\ feature_values[r][capacity_field] = 0

C4_DamCount ==
    \A r \in Processed :
        LET capacity == comb_capacity(rules_of(stage, args), mfs, arrays[r], args.max_drainage_area)
            len == feature_values[r]["iGeo_Len"]
            count == raw_count(capacity, len)
            between == capacity > 0 /\ len > 0 /\ count < CapUnit
            recorded == feature_values[r][dam_count_field]
        IN /\ recorded = (IF between THEN CapUnit ELSE Round2(count))
           /\ ~(0 < recorded /\ recorded < CapUnit)
           /\ (capacity = 0 => recorded = 0)

\* one batch with a count forced up to 1 and a count above 1 kept as computed
C4_Witness ==
    /\ \E r \in Processed :
          /\ feature_values[r][dam_count_field] = CapUnit
          /\ feature_values[r][capacity_field] > 0
          /\ (feature_values[r][capacity_field] \div 1000) * feature_values[r]["iGeo_Len"] < CapUnit
    /\ \E r \in Processed :
          /\ feature_values[r][dam_count_field] > CapUnit
          /\ feature_values[r][dam_count_field] % CapUnit # 0

\* C5: after a stage has run over a batch, every reach of the input batch has
\* exactly the stage's output fields added, no reach identifier is added or
\* removed, and every input field of every reach is unchanged.
C5_OutputsPerReach ==
    /\ \A r \in DOMAIN feature_values :
          /\ r \in DOMAIN database
          /\ fields[stage] \subseteq DOMAIN Rows[stage][r]
          /\ \A f \in fields[stage] : feature_values[r][f] = Rows[stage][r][f]
    /\ pc \in {"built", "done"} =>
          DOMAIN feature_values = {r \in DOMAIN database : fields[stage] \subseteq DOMAIN Rows[stage][r]}
    /\ (pc = "built" /\ i = Cardinality(DOMAIN feature_values)) \/ pc = "done" =>
          \A r \in DOMAIN feature_values :
              DOMAIN feature_values[r] = fields[stage] \cup out_fields[stage]
    /\ pc = "done" =>
          \A r \in DOMAIN database :
              /\ \A f \in DOMAIN Rows[stage][r] : database[r][f] = Rows[stage][r][f]
              /\ DOMAIN database[r] =
                    DOMAIN Rows[stage][r] \cup (IF r \in DOMAIN feature_values THEN out_fields[stage] ELSE {})

\* a finished combined run over a batch with a reach the query left out
C5_Witness ==
    /\ pc = "done"
    /\ stage = "comb"
    /\ Cardinality(DOMAIN feature_values) >= 1
    /\ DOMAIN feature_values # DOMAIN database
    /\ \A r \in DOMAIN feature_values : dam_count_field \in DOMAIN database[r]

----------------------------------------------------------------------------
\* Properties of the adjustments

\* the unadjusted membership functions of the stage
standard_terms(st) == IF st = "veg" THEN veg_terms ELSE comb_terms

\* scale factor 1.0 for every variable, or shift 0.0 for every variable
IdentityAdjustment(a) ==
    \/ a.adjustment_type = "scale" /\ \A k \in DOMAIN a.vals : RatEq(a.vals[k], 1)
    \/ a.adjustment_type = "shift" /\ \A k \in DOMAIN a.vals : RatEq(a.vals[k], 0)

\* C6 as stated: with scale factor 1.0 and shift 0.0 the breakpoints the custom
\* builders compute are those of the standard membership functions, so the
\* custom stage produces for every reach the outputs of the standard stage.
C6_IdentityAdjustmentSameOutputs ==
    (stage \in {"veg", "comb"} /\ IdentityAdjustment(args) /\ ~args.dgo)
    => /\ \A v \in DOMAIN pts : \A cat \in DOMAIN pts[v] :
             pts[v][cat] = standard_terms(stage)[v][cat].p
       /\ pc # "raised"
       /\ \A r \in DOMAIN feature_values :
             \A f \in out_fields[stage] \cap DOMAIN feature_values[r] :
                feature_values[r][f] =
                   reach_outputs(stage, [args EXCEPT !.adjustment_type = "None"],
                                 standard_terms(stage), feature_values[r], arrays[r])[f]

\* sample points of the operating range of a variable
DomainPoints(v) ==
    CASE v \in {"riparian", "streamside"} -> {k * Suit(1, 20) : k \in 0..79}
      [] v \in {"splow", "sp2"} -> {W(k * 100) : k \in 0..99}
      [] v = "slope" -> {Slo(k, 100) : k \in 0..99}
      [] v = "ovc" -> {Cap(k, 1) : k \in 0..44}

\* C8 as stated: under every accepted adjustment the categories of each input
\* variable cover its whole operating range: at every point at least one
\* category has membership greater than 0.
C8_CategoriesCoverDomain ==
    (stage \in {"veg", "comb"} /\ pc \in {"built", "done"} /\ Adjusting(args))
    => \A v \in DOMAIN mfs : \A x \in DomainPoints(v) :
          \E cat \in DOMAIN mfs[v] : Mu(mfs[v][cat], x) # Zero

\* an adjustment the claim calls invalid: unknown kind, a scale factor <= 0, a
\* shape selector other than 1.0 and 2.0
InvalidAdjustment(st, a) ==
    /\ Adjusting(a)
    /\ \/ a.adjustment_type \notin adjustment_types[st]
       \/ a.adjustment_type = "scale" /\ \E k \in DOMAIN a.vals : ~a.vals[k].isNone /\ RatLeqZero(a.vals[k])
       \/ a.adjustment_type = "shape" /\
             \E k \in DOMAIN a.vals : ~a.vals[k].isNone /\ ~RatEq(a.vals[k], 1) /\ ~RatEq(a.vals[k], 2)

\* C10 as stated: every invalid adjustment given to vegetation_fis_custom or
\* combined_fis_custom is rejected with an error before any reach is loaded or
\* evaluated, and no reach output is computed or written.
C10_InvalidAdjustmentRejected ==
    (stage \in {"veg", "comb"} /\ InvalidAdjustment(stage, args))
    => /\ pc \in {"called", "raised"}
       /\ pc = "raised" => err # "none"
       /\ feature_values = <<>>
       /\ \A r \in DOMAIN database : DOMAIN database[r] \cap out_fields[stage] = {}

----------------------------------------------------------------------------
\* Properties of the builder sections (SpecBuilder)

\* the geometry a section scales: the shifted base breakpoints
base_of(variable, shift) ==
    CASE variable = "splow" -> splow_trapezoids(shift)
      [] variable = "sp2" -> sp2_trapezoids(shift) @@ sp2_triangles(shift)
      [] variable = "slope" -> slope_trapezoids(shift)
      [] OTHER -> ("unsuitable" :> unsuitable_base) @@ tri_centers

\* leg * f = scaled leg, for f = num/den
ScaledLeg(leg, scaled, f) == scaled * f.den = leg * f.num

\* C7: scaling by f > 0 leaves the top (b, c) of a trapezoid and the apex b of a
\* triangle where they are and multiplies each leg length by f: a' = b-(b-a)f,
\* d' = c+(d-c)f, and for a triangle c' = b+(c-b)f; f = 2 doubles both legs.
C7_ScaleKeepsTopScalesLegs ==
    (stage = "builder" /\ pc # "section" /\ args.kind = "scale")
    => \A cat \in DOMAIN pts[args.variable] :
          LET base == base_of(args.variable, params.shift)[cat]
              p == pts[args.variable][cat]
              f == params.scale
              n == Len(base)
          IN /\ Len(p) = n
             /\ p[2] = base[2]
             /\ p[n - 1] = base[n - 1]
             /\ ScaledLeg(base[2] - base[1], p[2] - p[1], f)
             /\ ScaledLeg(base[n] - base[n - 1], p[n] - p[n - 1], f)
             /\ RatEq(f, 2) => /\ p[2] - p[1] = 2 * (base[2] - base[1])
                               /\ p[n] - p[n - 1] = 2 * (base[n] - base[n - 1])

\* SP2 scaled by 2: a trapezoid and a triangle with doubled legs
C7_Witness ==
    /\ stage = "builder"
    /\ pc = "pts"
    /\ args.variable = "sp2"
    /\ args.kind = "scale"
    /\ RatEq(params.scale, 2)
    /\ pts["sp2"]["persists"] = <<0, 0, W(1000), W(1400)>>
    /\ pts["sp2"]["breach"] = <<W(800), W(1200), W(2000)>>

\* the hard boundary of the domain of a combined-stage variable
DomainMax(variable) == IF variable = "slope" THEN Slo(1, 1) ELSE W(10000)

\* C9 as stated: a shift by c translates every breakpoint of every category of
\* the variable by c, except the breakpoints pinned to 0 or the domain maximum,
\* for SPlow, SP2 and slope alike.
C9_ShiftTranslatesAll ==
    (stage = "builder" /\ pc # "section" /\ args.kind = "shift")
    => \A cat \in DOMAIN pts[args.variable] : \A k \in DOMAIN pts[args.variable][cat] :
          LET b0 == comb_terms[args.variable][cat].p[k]
              p == pts[args.variable][cat][k]
          IN IF b0 \in {0, DomainMax(args.variable)} THEN p = b0 ELSE p = b0 + params.shift

\* the slope breakpoints the shift leaves alone: the falling leg of 'flat',
\* which is the rising leg of 'can'
SlopeFixed == {Slo(2, 10000), Slo(5, 1000)}

\* C9 amended: a shift of SPlow or SP2 by c translates every breakpoint by c
\* except those pinned to 0 or the domain maximum; a shift of slope does the
\* same except that 0.0002 and 0.005 also stay where they are.
C9_ShiftTranslatesButSlopeFlat ==
    (stage = "builder" /\ pc # "section" /\ args.kind = "shift")
    => \A cat \in DOMAIN pts[args.variable] : \A k \in DOMAIN pts[args.variable][cat] :
          LET b0 == comb_terms[args.variable][cat].p[k]
              p == pts[args.variable][cat][k]
              pinned == \/ b0 \in {0, DomainMax(args.variable)}
                        \/ args.variable = "slope" /\ b0 \in SlopeFixed
          IN IF pinned THEN p = b0 ELSE p = b0 + params.shift

\* slope shifted by 0.02: 'probably' has moved as a whole, 'flat' and the top
\* end of 'cannot' have not
C9_Witness ==
    /\ stage = "builder"
    /\ pc = "pts"
    /\ args.variable = "slope"
    /\ args.kind = "shift"
    /\ params.shift = Slo(2, 100)
    /\ pts["slope"]["probably"] = <<Slo(14, 100), Slo(17, 100), Slo(19, 100), Slo(25, 100)>>
    /\ pts["slope"]["flat"] = <<0, 0, Slo(2, 10000), Slo(5, 1000)>>
    /\ pts["slope"]["cannot"][4] = Slo(1, 1)

----------------------------------------------------------------------------
\* Claim C11: the clamping of the inputs

Clamped(x, lo, hi) == IF x < lo THEN lo ELSE IF x > hi THEN hi ELSE x

\* every loaded reach has an entry in the arrays
NoneRejected == DOMAIN arrays = DOMAIN feature_values

\* the vegetation stage replaces a suitability outside [0, 4] by the nearer end
VegInputsClamped ==
    \A r \in DOMAIN arrays :
        /\ arrays[r].riparian = Clamped(feature_values[r][riparian_field], 0, Suit(4, 1))
        /\ arrays[r].streamside = Clamped(feature_values[r][streamside_field], 0, Suit(4, 1))

----------------------------------------------------------------------------
\* Claim C13: what an adjustment leaves alone

\* the rule table of the standard function of the stage
standard_rules == IF stage = "veg" THEN veg_ctrl ELSE comb_ctrl

----------------------------------------------------------------------------
\* Claim C14: the "cannot build" categories

\* the inputs compute() is given for a reach of the combined stage
comb_input(r) ==
    [ovc |-> arrays[r].veg, sp2 |-> arrays[r].hydq2, splow |-> arrays[r].hydlow,
     slope |-> arrays[r].slope]

\* the reach has full membership in the 'cannot' category of the variable
FullCannot(r, variable) ==
    Mu(mfs[variable]["cannot"], Clip(comb_input(r)[variable], comb_universes[variable])) = Full

----------------------------------------------------------------------------
\* Claim C15: the reclassification of the vegetation stage

VegProcessed == {r \in DOMAIN feature_values : stage = "veg" /\ veg_fis_field \in DOMAIN feature_values[r]}

\* veg_fis.output['result'] of a reach of the vegetation stage
veg_raw(r) ==
    compute(rules_of(stage, args), mfs, veg_universes,
            [riparian |-> arrays[r].riparian, streamside |-> arrays[r].streamside])

\* the centroid of the top output category, before it is rounded
centroid_pervasive ==
    defuzz([none |-> Zero, rare |-> Zero, occasional |-> Zero, frequent |-> Zero, pervasive |-> Full])

StatedReclass(raw, recorded) ==
    IF raw >= centroid_pervasive THEN recorded = Cap(45, 1)
    ELSE IF raw = defuzz_centroid THEN recorded = 0
    ELSE recorded = Round2(raw)

CodedReclass(raw, recorded) ==
    IF raw # defuzz_centroid /\ Round0(raw) >= defuzz_pervasive THEN recorded = Cap(40, 1)
    ELSE IF raw = defuzz_centroid THEN recorded = 0
    ELSE recorded = Round2(raw)

\* C15 as stated: the vegetation stage records the maximum of the output
\* domain, 45, for every defuzzified output at or above the centroid of
\* 'pervasive', and leaves an output below that centroid unchanged (apart from
\* the reclassification to zero and the rounding to two decimals).
C15_PervasiveBecomesDomainMax ==
    \A r \in VegProcessed : StatedReclass(veg_raw(r), feature_values[r][veg_fis_field])

\* C15 amended: the vegetation stage records 40 for every defuzzified output
\* that rounds to an integer at or above the rounded centroid of 'pervasive'
\* (31), and leaves every other output unchanged (apart from the
\* reclassification to zero and the rounding to two decimals).
C15_PervasiveBecomesForty ==
    \A r \in VegProcessed : CodedReclass(veg_raw(r), feature_values[r][veg_fis_field])

\* the reach with suitability 4 on both buffers has been processed: its output
\* (31.38) is below the centroid of 'pervasive' (31.48), rounds to 31, and 40
\* is recorded; the output of another reach of the batch is below the
\* threshold and recorded as it is
C15_Witness ==
    /\ stage = "veg"
    /\ 1 \in VegProcessed
    /\ veg_raw(1) < centroid_pervasive
    /\ Round0(veg_raw(1)) = defuzz_pervasive
    /\ feature_values[1][veg_fis_field] = Cap(40, 1)
    /\ \E r \in VegProcessed :
          /\ veg_raw(r) > defuzz_centroid
          /\ Round0(veg_raw(r)) < defuzz_pervasive
          /\ feature_values[r][veg_fis_field] = Round2(veg_raw(r))

----------------------------------------------------------------------------
\* Claim C16: the centres of the loose-fit curves

\* the literal each loose-fit generator call adds `c` to: a point inside the
\* support of the category's trapezoid or triangle
loose_fit_centres ==
    [splow |-> [can |-> W(75), probably |-> W(170), cannot |-> W(5090)],
     sp2 |-> [persists |-> W(500), breach |-> W(1200), oblowout |-> W(1700), blowout |-> W(6200)],
     slope |-> [flat |-> Slo(25, 10000), can |-> Slo(6, 100), probably |-> Slo(165, 1000),
                cannot |-> Slo(585, 1000)]]

\* where a generalized-bell or Gaussian curve has its maximum
CentreOf(m) == IF m.kind = "gbell" THEN m.p[3] ELSE m.p[1]

LooseFit ==
    /\ stage = "builder"
    /\ pc = "built"
    /\ args.variable \in DOMAIN loose_fit_centres
    /\ args.kind = "shape"
    /\ RatEq(params.shape, 2)

\* C16: with the loose-fit shape selected for a variable, the curve of each
\* category is centred at the central location of the category's base
\* function offset by the shift of the variable, inside the shifted support of
\* the base function, whatever the breakpoints of the other categories are.
C16_LooseFitCentredOnBase ==
    LooseFit
    => \A cat \in DOMAIN mfs[args.variable] :
          LET centre == CentreOf(mfs[args.variable][cat])
              base == comb_terms[args.variable][cat].p
          IN /\ centre = loose_fit_centres[args.variable][cat] + params.shift
             /\ base[1] + params.shift <= centre
             /\ centre <= base[Len(base)] + params.shift

----------------------------------------------------------------------------
\* brat_montecarlo.py: the Monte Carlo driver.  For this entry point `args`
\* holds n_simulations, n_synthetic_inputs, uniform_inputs and, as `config`,
\* the distribution tables of the module at the time of the call, `database` the
\* sqlite file and the content seen through the open connection,
\* `feature_values` the list input_reaches, `params` the dict sim_adjustments,
\* `arrays` the dicts veg_feature_values and comb_feature_values of the loop
\* body and `i` the loop variable.

MaxSimulations == 2
MaxSamples == 2
\* how many sessions can leave a simulation record in one file
MaxSessions == 2
\* how many values of a standard variate a random call can return
Draws == 4

\* distribution parameters and sampled values are held in 1/10000
DistUnit == 10000

input_vars == <<"iVeg_30EX", "iVeg100EX", "iHyd_SPlow", "iHyd_SP2", "iGeo_Slope">>

input_dists_sampled ==
    [iVeg_30EX |-> <<"norm", 22340, 5708>>,
     iVeg100EX |-> <<"norm", 21100, 3793>>,
     iHyd_SPlow |-> <<"expon", 0, 33110>>,
     iHyd_SP2 |-> <<"expon", 2440000, 3029000>>,
     iGeo_Slope |-> <<"expon", 0, 1878>>]

input_dists_uniform ==
    [iVeg_30EX |-> <<"uniform", 0, 4 * DistUnit>>,
     iVeg100EX |-> <<"uniform", 0, 4 * DistUnit>>,
     iHyd_SPlow |-> <<"uniform", 0, 190 * DistUnit>>,
     iHyd_SP2 |-> <<"uniform", 0, 2400 * DistUnit>>,
     iGeo_Slope |-> <<"uniform", 0, DistUnit>>]

adjustment_dist ==
    [SPlow_Shift |-> <<"norm", 0, 185000>>,
     SP2_Shift |-> <<"norm", 0, 200 * DistUnit>>,
     Slope_Shift |-> <<"norm", 0, 200>>,
     Veg30_Scale |-> <<"norm", DistUnit, 7500>>,
     Veg100_Scale |-> <<"norm", DistUnit, 7500>>,
     SPlow_Scale |-> <<"norm", DistUnit, 7500>>,
     SP2_Scale |-> <<"norm", DistUnit, 7500>>,
     Slope_Scale |-> <<"norm", DistUnit, 7500>>]

adj_cols ==
    <<"Veg30_Scale", "Veg100_Scale", "SPlow_Shift", "SPlow_Scale",
      "SP2_Shift", "SP2_Scale", "Slope_Shift", "Slope_Scale">>

\* `'Scale' in adj`
HasScale(adj) == adj \in {"Veg30_Scale", "Veg100_Scale", "SPlow_Scale", "SP2_Scale", "Slope_Scale"}

\* np.random.normal(loc, scale): loc + scale * z for the k-th standard normal
\* value z, one of -8/3, -4/3, 0, 4/3, ...
random_normal(loc, scale, k) == loc + (scale * 4 * (k - 3)) \div 3

\* np.random.uniform(low, high): a value of [low, high)
random_uniform(low, high, k) == low + ((high - low) * (k - 1)) \div Draws

\* np.random.exponential(scale): scale * e for the k-th value e >= 0
random_exponential(scale, k) == (scale * (k - 1) * (k - 1)) \div 3

\* the families the branches of generate_inputs and of generate_adjustments
\* know; every other name ends in `raise ValueError`
input_families == {"norm", "uniform", "expon"}
adjustment_families == {"norm", "uniform"}

\* the three tables as the module holds them when brat_montecarlo is called:
\* as written in the source, or with the family of one entry replaced by a
\* name the sampling function does not know
MonteCarloConfigs ==
    {[input_dists_sampled |-> input_dists_sampled, input_dists_uniform |-> input_dists_uniform,
      adjustment_dist |-> adjustment_dist],
     [input_dists_sampled |-> [input_dists_sampled EXCEPT !.iHyd_SPlow[1] = "lognorm"],
      input_dists_uniform |-> input_dists_uniform, adjustment_dist |-> adjustment_dist],
     [input_dists_sampled |-> input_dists_sampled, input_dists_uniform |-> input_dists_uniform,
      adjustment_dist |-> [adjustment_dist EXCEPT !.Slope_Shift[1] = "expon"]]}

\* input_dists of generate_inputs and input_dist of brat_montecarlo
input_dists_of(config, uniform) ==
    IF uniform THEN config.input_dists_uniform ELSE config.input_dists_sampled

\* one pass of the inner loop of generate_inputs
input_sample(d, k) ==
    IF d[1] = "norm" THEN random_normal(d[2], d[3], k)
    ELSE IF d[1] = "uniform" THEN random_uniform(d[2], d[3], k)
    ELSE IF d[1] = "expon" THEN random_exponential(d[3], k) + d[2]
    ELSE "ValueError"

\* generate_inputs without the variables drawn from an exponential distribution
generate_inputs_partial(config, n_inputs, uniform, draw) ==
    LET input_dists == input_dists_of(config, uniform) IN
    [r \in 1..n_inputs |->
        [var \in {v \in DOMAIN input_dists : uniform \/ input_dists[v][1] # "expon"} |->
            input_sample(input_dists[var], draw[r][var])]]

\* generate_inputs: a list of n_inputs dicts with a value for every variable
generate_inputs(config, n_inputs, uniform, draw) ==
    LET input_dists == input_dists_of(config, uniform) IN
    [r \in 1..n_inputs |->
        [var \in DOMAIN input_dists |-> input_sample(input_dists[var], draw[r][var])]]

\* the entries of the table in use that send generate_inputs to `raise
\* ValueError`, by their place in the table.  The family is looked at when the
\* loop comes to the entry, so with n_inputs = 0 nothing is raised, and the
\* entries before the first unknown one have had their value drawn.
inputs_unknown(config, uniform) ==
    {k \in 1..Len(input_vars) : input_dists_of(config, uniform)[input_vars[k]][1] \notin input_families}

inputs_raise(config, n_inputs, uniform) == n_inputs > 0 /\ inputs_unknown(config, uniform) # {}

\* one pass of the loop of generate_adjustments
adjustment_sample(adj, d, k) ==
    IF d[1] = "norm"
    THEN (IF HasScale(adj) THEN Abs(random_normal(d[2], d[3], k)) ELSE random_normal(d[2], d[3], k))
    ELSE IF d[1] = "uniform" THEN random_uniform(d[2], d[3], k)
    ELSE "ValueError"

\* generate_adjustments: a dict with a value for every adjustment
generate_adjustments(dists, draw) ==
    [adj \in DOMAIN dists |-> adjustment_sample(adj, dists[adj], draw[adj])]

\* generate_adjustments reaches `raise ValueError`
adjustments_raise(dists) == \E adj \in DOMAIN dists : dists[adj][1] \notin adjustment_families

\* the random values of a call of generate_inputs: one draw per reach, shared
\* by its variables
InputDraws(n_inputs) ==
    {[r \in 1..n_inputs |-> [var \in DOMAIN input_dists_sampled |-> ks[r]]] : ks \in [1..n_inputs -> 1..Draws]}

\* the random values of a call of generate_adjustments: one draw for the
\* shifts and one for the scales
AdjustmentDraws ==
    {[adj \in DOMAIN adjustment_dist |-> IF HasScale(adj) THEN ks[1] ELSE ks[2]] :
        ks \in (1..Draws) \X (1..Draws)}

\* the tables of the result store
Tables == {"Simulations", "SimulationAdjustments", "InputDistributions", "Results", "Stats"}

\* a create_db that makes every table anew
create_db_fresh(file) == [t \in Tables |-> <<>>]

\* create_db: CREATE TABLE IF NOT EXISTS for each table; a file that does not
\* exist is the function with the empty domain
create_db(file) == [t \in Tables |-> IF t \in DOMAIN file THEN file[t] ELSE <<>>]

\* INSERT INTO Simulations(Name, Start, N_samples): SimID is the next integer,
\* End is not given
insert_simulation(conn, n_simulations) ==
    [conn EXCEPT !["Simulations"] =
        Append(@, [SimID |-> Len(@) + 1, Name |-> "Monte Carlo Simulation", Start |-> "start_time",
                   End |-> "NULL", N_samples |-> n_simulations])]

\* cur.lastrowid after the insert
lastrowid(conn) == conn["Simulations"][Len(conn["Simulations"])].SimID

\* the rows `for var, (dist, param1, param2) in input_dist.items()` inserts,
\* in the order of the dict, which is the order of input_vars
insert_distributions(conn, sim_id, input_dist) ==
    [conn EXCEPT !["InputDistributions"] =
        @ \o [k \in 1..Len(input_vars) |->
                 LET var == input_vars[k] IN
                 [SimID |-> sim_id, Var |-> var, Distribution |-> input_dist[var][1],
                  Param1 |-> input_dist[var][2], Param2 |-> input_dist[var][3]]]]

\* the arguments of the call of calculate_combined_fis_custom in the loop
\* body: shift and scale of each variable from the vector, every shape 0.0
comb_call(sim_adjustments) ==
    [splow |-> [shift |-> sim_adjustments["SPlow_Shift"], scale |-> sim_adjustments["SPlow_Scale"], shape |-> 0],
     sp2 |-> [shift |-> sim_adjustments["SP2_Shift"], scale |-> sim_adjustments["SP2_Scale"], shape |-> 0],
     slope |-> [shift |-> sim_adjustments["Slope_Shift"], scale |-> sim_adjustments["Slope_Scale"], shape |-> 0]]

\* the calls of brat_montecarlo and the files it is pointed at: no file, or a
\* file with the record of an earlier session
MonteCarloCalls ==
    {[n_simulations |-> s, n_synthetic_inputs |-> n, uniform_inputs |-> u, config |-> c] :
        s \in 0..MaxSimulations, n \in 0..MaxSamples, u \in BOOLEAN, c \in MonteCarloConfigs}

MonteCarloFiles ==
    {<<>>, insert_distributions(insert_simulation(create_db(<<>>), 0), 1, input_dists_sampled)}

InitMonteCarlo ==
    /\ stage = "montecarlo"
    /\ args \in MonteCarloCalls
    /\ \E file \in MonteCarloFiles : database = [file |-> file, conn |-> file]
    /\ pc = "called"
    /\ params = <<>>
    /\ feature_values = <<>>
    /\ arrays = <<>>
    /\ pts = <<>>
    /\ mfs = <<>>
    /\ i = 0
    /\ err = "none"

\* create_db(database), in a connection of its own that commits
CreateDb ==
    /\ stage = "montecarlo"
    /\ pc = "called"
    /\ database' = [file |-> create_db(database.file), conn |-> create_db(database.file)]
    /\ pc' = "connected"
    /\ UNCHANGED <<stage, args, params, feature_values, arrays, pts, mfs, i, err>>

\* the simulation record and the input distributions, inserted in the
\* transaction of the connection
LogSimulation ==
    /\ stage = "montecarlo"
    /\ pc = "connected"
    /\ \E conn \in {insert_simulation(database.conn, args.n_simulations)} :
          database' = [database EXCEPT !.conn =
                          insert_distributions(conn, lastrowid(conn),
                              input_dists_of(args.config, args.uniform_inputs))]
    /\ pc' = "logged"
    /\ UNCHANGED <<stage, args, params, feature_values, arrays, pts, mfs, i, err>>

\* input_reaches = generate_inputs(n_synthetic_inputs, uniform_inputs); a
\* ValueError leaves the `with` block of the connection, which rolls the
\* transaction back
GenerateInputs ==
    /\ stage = "montecarlo"
    /\ pc = "logged"
    /\ IF inputs_raise(args.config, args.n_synthetic_inputs, args.uniform_inputs)
       THEN /\ err' = "ValueError"
            /\ pc' = "raised"
            /\ database' = [database EXCEPT !.conn = database.file]
            /\ UNCHANGED feature_values
       ELSE /\ \E draw \in InputDraws(args.n_synthetic_inputs) :
                  feature_values' = generate_inputs(args.config, args.n_synthetic_inputs,
                                                    args.uniform_inputs, draw)
            /\ pc' = "loop"
            /\ UNCHANGED <<database, err>>
    /\ UNCHANGED <<stage, args, params, arrays, pts, mfs, i>>

\* the head of a pass of `for i in range(n_simulations)`:
\* sim_adjustments = generate_adjustments()
GenerateAdjustments ==
    /\ stage = "montecarlo"
    /\ pc = "loop"
    /\ i < args.n_simulations
    /\ IF adjustments_raise(args.config.adjustment_dist)
       THEN /\ err' = "ValueError"
            /\ pc' = "raised"
            /\ database' = [database EXCEPT !.conn = database.file]
            /\ UNCHANGED params
       ELSE /\ \E draw \in AdjustmentDraws :
                  params' = generate_adjustments(args.config.adjustment_dist, draw)
            /\ pc' = "adjusted"
            /\ UNCHANGED <<database, err>>
    /\ UNCHANGED <<stage, args, feature_values, arrays, pts, mfs, i>>

\* cur.executemany(insert_stmt, (sim_id, *[...])): the second argument is one
\* flat tuple, so the first row handed to the statement is the integer sim_id
\* and sqlite3 raises ("parameters are of unsupported type").  The exception
\* leaves the `with` block of the connection, which rolls the transaction
\* back; the rest of the loop body is never reached.
LogAdjustments ==
    /\ stage = "montecarlo"
    /\ pc = "adjusted"
    /\ err' = "ProgrammingError"
    /\ pc' = "raised"
    /\ database' = [database EXCEPT !.conn = database.file]
    /\ UNCHANGED <<stage, args, params, feature_values, arrays, pts, mfs, i>>

\* the loop is over: the `with` block of the connection commits
Commit ==
    /\ stage = "montecarlo"
    /\ pc = "loop"
    /\ i >= args.n_simulations
    /\ database' = [database EXCEPT !.file = database.conn]
    /\ pc' = "done"
    /\ UNCHANGED <<stage, args, params, feature_values, arrays, pts, mfs, i, err>>

\* the call is over, by its return or with the exception that leaves it: the
\* locals input_reaches and sim_adjustments and the connection are gone
Return ==
    /\ stage = "montecarlo"
    /\ pc \in {"done", "raised"}
    /\ pc' = "returned"
    /\ params' = <<>>
    /\ feature_values' = <<>>
    /\ database' = [database EXCEPT !.conn = database.file]
    /\ UNCHANGED <<stage, args, arrays, pts, mfs, i, err>>

\* brat_montecarlo is called again with the same file, after a session that
\* has returned or raised
CallAgain ==
    /\ stage = "montecarlo"
    /\ pc = "returned"
    /\ Len(database.file["Simulations"]) < MaxSessions
    /\ args' \in MonteCarloCalls
    /\ pc' = "called"
    /\ err' = "none"
    /\ UNCHANGED <<stage, database, params, feature_values, arrays, pts, mfs, i>>

\* the statements of one call
DriverStep ==
    \/ CreateDb
    \/ LogSimulation
    \/ GenerateInputs
    \/ GenerateAdjustments
    \/ LogAdjustments
    \/ Commit
    \/ Return

NextMonteCarlo ==
    \/ CreateDb
    \/ LogSimulation
    \/ GenerateInputs
    \/ GenerateAdjustments
    \/ LogAdjustments
    \/ Commit
    \/ Return
    \/ CallAgain

SpecMonteCarlo == InitMonteCarlo /\ [][NextMonteCarlo]_vars

\* the driver is one synchronous call: a statement that can run does run;
\* nothing makes a caller start another session
FairMonteCarlo == SpecMonteCarlo /\ WF_vars(DriverStep)

----------------------------------------------------------------------------
\* Claim C12: one adjustment kind per variable

\* which of shift, scale and shape differ from their defaults, for the
\* parameters combined_fis_custom hands on
entry_in_effect(q) ==
    [splow |-> <<q.spl_shift # 0, ~RatEq(q.spl_scale, 1), ~RatEq(q.spl_shape, 0)>>,
     sp2 |-> <<q.sp2_shift # 0, ~RatEq(q.sp2_scale, 1), ~RatEq(q.sp2_shape, 0)>>,
     slope |-> <<q.slo_shift # 0, ~RatEq(q.slo_scale, 1), ~RatEq(q.slo_shape, 0)>>]

\* the same for the arguments of a call of the Monte Carlo driver
driver_in_effect(c) ==
    [v \in DOMAIN c |-> <<c[v].shift # 0, c[v].scale # DistUnit, c[v].shape # 0>>]

\* what is in effect in the calls the driver makes, one per vector it can draw
DriverCalls ==
    {driver_in_effect(comb_call(generate_adjustments(adjustment_dist, draw))) : draw \in AdjustmentDraws}

AtMostOne(flags) == Cardinality({k \in 1..3 : flags[k]}) <= 1

\* evaluations started through combined_fis_custom
OneKindFromEntryPoint ==
    (stage = "comb" /\ params # <<>>)
    => \A v \in DOMAIN entry_in_effect(params) : AtMostOne(entry_in_effect(params)[v])

----------------------------------------------------------------------------
\* Claims C17 to C20: the Monte Carlo driver

\* a pass of the simulation loop has begun
SimulationStarted == stage = "montecarlo" /\ pc \in {"adjusted", "raised"} /\ params # <<>>

\* the loop body has run both stages: every reach has a vegetation output, the
\* combined stage has read that output and stored a capacity
PipelineRan ==
    /\ DOMAIN arrays = {"veg_feature_values", "comb_feature_values"}
    /\ DOMAIN arrays["veg_feature_values"] = 1..Len(feature_values)
    /\ \A r \in DOMAIN arrays["veg_feature_values"] :
          /\ "oVC_EX" \in DOMAIN arrays["veg_feature_values"][r]
          /\ "oCC_EX" \in DOMAIN arrays["comb_feature_values"][r]
          /\ arrays["comb_feature_values"][r]["oVC_EX"] = arrays["veg_feature_values"][r]["oVC_EX"]

\* the rows of a table of the file that belong to the session
RowsOf(table) ==
    IF table \in DOMAIN database.file /\ "Simulations" \in DOMAIN database.conn
       /\ Len(database.conn["Simulations"]) > 0
    THEN {k \in 1..Len(database.file[table]) : database.file[table][k].SimID = lastrowid(database.conn)}
    ELSE {}

\* C17: in every simulation of a session the vegetation stage runs, then the
\* combined stage runs on the vegetation output of the same reach, and results
\* are in the store only after the combined stage has finished.
C17_VegetationThenCombined ==
    /\ SimulationStarted ~> PipelineRan
    /\ [](RowsOf("Results") # {} => PipelineRan)

\* the session has its records in the file: the simulation-run record with
\* both timestamps and the sample count, the input distributions, the
\* adjustment vector, a result row per reach and the statistics record
Recorded ==
    /\ \E k \in RowsOf("Simulations") :
          /\ database.file["Simulations"][k].End # "NULL"
          /\ database.file["Simulations"][k].N_samples = args.n_synthetic_inputs
    /\ Cardinality(RowsOf("InputDistributions")) = Len(input_vars)
    /\ Cardinality(RowsOf("SimulationAdjustments")) = 1
    /\ Cardinality(RowsOf("Results")) = args.n_synthetic_inputs
    /\ Cardinality(RowsOf("Stats")) = 1

\* C20: every simulation that starts eventually reaches the Recorded state.
C20_SimulationRecorded == SimulationStarted ~> Recorded

\* C18: for a sample count N a simulation has exactly N synthetic reach
\* records, each with a value for each of the five input variables, and one
\* adjustment vector with a value for each of the eight adjustment parameters.
C18_SampleCounts ==
    SimulationStarted
    => /\ Len(feature_values) = args.n_synthetic_inputs
       /\ \A r \in 1..Len(feature_values) :
             /\ DOMAIN feature_values[r] = {input_vars[k] : k \in 1..Len(input_vars)}
             /\ Cardinality(DOMAIN feature_values[r]) = 5
       /\ DOMAIN params = {adj_cols[k] : k \in 1..Len(adj_cols)}
       /\ Cardinality(DOMAIN params) = 8

\* a simulation of a session with two samples from the fitted distributions
\* has drawn two different reaches and its adjustment vector
C18_Witness ==
    /\ SimulationStarted
    /\ pc = "adjusted"
    /\ ~args.uniform_inputs
    /\ args.n_synthetic_inputs = 2
    /\ Len(feature_values) = 2
    /\ feature_values[1] # feature_values[2]
    /\ feature_values[1]["iHyd_SP2"] >= 244 * DistUnit
    /\ Cardinality(DOMAIN params) = 8

\* C19: every scale adjustment of a vector generate_adjustments returns is
\* strictly greater than 0, for every draw.
C19_ScalesPositive ==
    SimulationStarted => \A adj \in DOMAIN params : HasScale(adj) => params[adj] > 0

----------------------------------------------------------------------------
\* Claims C21, C22 and C30: errors, sessions and termination of the driver

\* C21: a ValueError for an unknown distribution family is raised before any
\* value has been drawn (no synthetic reach and no adjustment has a value yet)
\* and before any record of the session is in the file.
C21_UnknownFamilyRaisedBeforeSampling ==
    [][(stage = "montecarlo" /\ err = "none" /\ err' = "ValueError")
       => /\ feature_values = <<>>
          /\ params = <<>>
          /\ database'.file = create_db(database.file)]_vars

\* the rows of a table of a file, none for a table the file does not have
FileRows(file, table) == IF table \in DOMAIN file THEN file[table] ELSE <<>>

\* the simulation identifiers the records of a file carry
FileIds(file) == {FileRows(file, t)[k].SimID : <<t, k>> \in {tk \in Tables \X (1..(MaxSessions * 5)) :
                                                          tk[2] <= Len(FileRows(file, tk[1]))}}

\* C22: no step of a session removes or changes a record the file holds, and
\* every record a session adds to the file carries a simulation identifier
\* that no record already in the file carries.
C22_SessionsOnlyAppend ==
    [][stage = "montecarlo"
       => \A t \in Tables :
             /\ Len(FileRows(database'.file, t)) >= Len(FileRows(database.file, t))
             /\ SubSeq(FileRows(database'.file, t), 1, Len(FileRows(database.file, t)))
                   = FileRows(database.file, t)
             /\ \A k \in (Len(FileRows(database.file, t)) + 1)..Len(FileRows(database'.file, t)) :
                   FileRows(database'.file, t)[k].SimID \notin FileIds(database.file)]_vars

\* a second session has returned: the file holds the records of both, under
\* different simulation identifiers, five input distributions each
C22_Witness ==
    /\ stage = "montecarlo"
    /\ pc = "done"
    /\ Len(database.file["Simulations"]) = 2
    /\ database.file["Simulations"][1].SimID # database.file["Simulations"][2].SimID
    /\ Len(database.file["InputDistributions"]) = 10
    /\ database.file["InputDistributions"][5].SimID = database.file["Simulations"][1].SimID
    /\ database.file["InputDistributions"][6].SimID = database.file["Simulations"][2].SimID

\* the call has returned after n_simulations passes, and the file holds
\* n_synthetic_inputs result rows of the session for each pass, each with the
\* five inputs, the two outputs and the simulation identifier
Terminated ==
    /\ pc = "done"
    /\ i = args.n_simulations
    /\ Cardinality(RowsOf("Results")) = args.n_simulations * args.n_synthetic_inputs
    /\ \A k \in RowsOf("Results") :
          DOMAIN database.file["Results"][k]
             = {input_vars[v] : v \in 1..Len(input_vars)} \cup {"ReachID", "SimID", "oVC_EX", "oCC_EX"}

\* C30: a session asked for n_simulations simulations over n_synthetic_inputs
\* reaches ends after exactly n_simulations passes, with n_synthetic_inputs
\* complete result rows recorded by each pass.
C30_TerminatesWithResults ==
    (stage = "montecarlo" /\ pc = "called" /\ ~adjustments_raise(args.config.adjustment_dist)
       /\ inputs_unknown(args.config, args.uniform_inputs) = {})
    ~> Terminated

----------------------------------------------------------------------------
\* Claim C23: reaches of a batch are evaluated independently

\* the reaches of the batch that have their outputs
Evaluated == {r \in DOMAIN feature_values : out_fields[stage] \subseteq DOMAIN feature_values[r]}

\* the row of reach r as a batch of its own loads it
LoadedAlone(r) == load_attributes((r :> database[r]), fields[stage])

\* the inputs of reach r as a batch of its own hands them to the loop
ArraysAlone(r) ==
    IF stage = "veg" THEN veg_arrays(LoadedAlone(r))[r] ELSE comb_arrays(LoadedAlone(r))[r]

\* what the loop stores for reach r when r is the only reach of the batch,
\* under the membership functions and the rule table of the call
OutputsAlone(r) == reach_outputs(stage, args, mfs, LoadedAlone(r)[r], ArraysAlone(r))

----------------------------------------------------------------------------
\* Claims C24 and C27: the rule tables

\* the categories of the inputs of the two stages
VegCats == DOMAIN veg_terms["riparian"]
CombCats == [ovc : DOMAIN ovc_terms, sp2 : DOMAIN comb_terms["sp2"], splow : DOMAIN comb_terms["splow"],
             slope : DOMAIN comb_terms["slope"]]

\* the rule holds for inputs that lie in the categories `combo`: each term of
\* its antecedent names the category of its variable, a negated term any other
Matches(rule, combo) ==
    \A k \in 1..Len(rule.ante) :
        IF rule.ante[k][3] THEN combo[rule.ante[k][1]] # rule.ante[k][2]
        ELSE combo[rule.ante[k][1]] = rule.ante[k][2]

Matching(rules, combo) == {k \in 1..Len(rules) : Matches(rules[k], combo)}

\* a rule that decides on one category alone that the output is 'none'
ShortCircuit(rule) == Len(rule.ante) = 1 /\ ~rule.ante[1][3] /\ rule.cons = "none"

VegComplete(rules) ==
    /\ Len(rules) = 25
    /\ \A combo \in [riparian : VegCats, streamside : VegCats] : Cardinality(Matching(rules, combo)) = 1

CombComplete(rules) ==
    \A combo \in CombCats :
        \/ \E k \in Matching(rules, combo) : ShortCircuit(rules[k])
        \/ Cardinality(Matching(rules, combo)) = 1

\* the rule tables of the source that are complete and unambiguous
CompleteTables ==
    {t \in {veg_ctrl, veg_ctrl_custom} : VegComplete(t)} \cup {t \in {comb_ctrl, comb_ctrl_custom} : CombComplete(t)}

\* C24: the rule table a call evaluates its reaches with is complete and
\* unambiguous: the vegetation table has 25 rules, exactly one for each pair
\* of a riparian and a streamside category, and in the combined table every
\* combination of categories that no short-circuit rule decides to be 'none'
\* is matched by exactly one rule.
C24_RuleTablesComplete ==
    pc \in {"built", "done"} => rules_of(stage, args) \in CompleteTables

\* a call with an adjustment has evaluated the first reach of its batch with
\* its table, and the outputs of the reach are above 0
C24_Witness ==
    /\ pc = "built"
    /\ Adjusting(args)
    /\ i = 1
    /\ Evaluated # {}
    /\ \A r \in Evaluated : \A f \in out_fields[stage] : feature_values[r][f] > 0

\* the place of an output category in the order none < rare < ... < pervasive
Rank(cat) == CHOOSE k \in 1..Len(DensityCats) : DensityCats[k] = cat

\* no rule has a consequent above the vegetation category of its antecedent,
\* and a rule that names no vegetation category has the lowest consequent
KeepsOrLowers(rules) ==
    \A k \in 1..Len(rules) :
        LET ovc == {j \in 1..Len(rules[k].ante) : rules[k].ante[j][1] = "ovc" /\ ~rules[k].ante[j][3]}
        IN /\ \A j \in ovc : Rank(rules[k].cons) <= Rank(rules[k].ante[j][2])
           /\ ovc = {} => rules[k].cons = "none"

\* the combined rule tables of the source that never raise the category
LoweringTables == {t \in {comb_ctrl, comb_ctrl_custom} : KeepsOrLowers(t)}

\* C27: in the combined rule table a call evaluates its reaches with, no
\* rule has a consequent category higher than the intermediate-capacity
\* category of its antecedent.
C27_CombinedRulesNeverRaise ==
    (stage = "comb" /\ pc \in {"built", "done"}) => rules_of(stage, args) \in LoweringTables

\* a standard combined call has evaluated a reach whose capacity the rules
\* put below its vegetation capacity
C27_Witness ==
    /\ stage = "comb"
    /\ pc = "built"
    /\ ~Adjusting(args)
    /\ \E r \in Processed :
          /\ feature_values[r][capacity_field] > 0
          /\ feature_values[r][capacity_field] < feature_values[r][veg_fis_field]

----------------------------------------------------------------------------
\* Claim C25: the reclassification of the 'none' category

\* the firing strengths of the output categories for an evaluated reach
FiringStrengths(r) ==
    IF stage = "veg"
    THEN Strengths(rules_of(stage, args), mfs, veg_universes,
                   [riparian |-> arrays[r].riparian, streamside |-> arrays[r].streamside])
    ELSE Strengths(rules_of(stage, args), mfs, comb_universes, comb_input(r))

\* only rules whose consequent is 'none' fire for the reach
OnlyNoneFires(r) ==
    /\ FiringStrengths(r)["none"] > Zero
    /\ \A cat \in DOMAIN FiringStrengths(r) \ {"none"} : FiringStrengths(r)[cat] = Zero


\* the defuzzified value of an evaluated reach as the loop compares it with
\* defuzz_centroid: in the combined stage after the limit by the vegetation
\* capacity
Compared(r) ==
    IF stage = "veg" THEN veg_raw(r)
    ELSE Min2(comb_result(rules_of(stage, args), mfs, arrays[r]), arrays[r].veg)

\* the reaches whose outputs come from the fuzzy system
FisEvaluated ==
    {r \in Evaluated : stage = "comb" => comb_branch(1, arrays[r], args.max_drainage_area) = 1}

\* the capacity the stage records for the reach
RecordedCapacity(r) ==
    IF stage = "veg" THEN feature_values[r][veg_fis_field] ELSE feature_values[r][capacity_field]

\* a result equal to the centroid of 'none' is recorded as 0
NoneCentroidIsZero ==
    \A r \in FisEvaluated : Compared(r) = defuzz_centroid => RecordedCapacity(r) = 0

----------------------------------------------------------------------------
\* Claim C26: adjustment values left out

\* the variables (1 SPlow, 2 SP2, 3 slope) whose value the call leaves out
Omitted(a) == {k \in 1..3 : a.vals[k].isNone}

\* the parameter of the kind of the call that calculate_combined_fis_custom
\* is handed for variable k
HandedOn(k) ==
    LET kind == args.adjustment_type
    IN IF kind = "shift" THEN (IF k = 1 THEN params.spl_shift ELSE IF k = 2 THEN params.sp2_shift
                               ELSE params.slo_shift)
       ELSE IF kind = "scale" THEN (IF k = 1 THEN params.spl_scale ELSE IF k = 2 THEN params.sp2_scale
                                    ELSE params.slo_scale)
       ELSE (IF k = 1 THEN params.spl_shape ELSE IF k = 2 THEN params.sp2_shape ELSE params.slo_shape)

\* the default of the kind, or the value given, as the parameter is kept
Expected(k) ==
    LET kind == args.adjustment_type
        v == IF args.vals[k].isNone THEN default_adj_vals[kind] ELSE args.vals[k]
    IN IF kind = "shift" THEN InUnit(v, IF k = 3 THEN SlopeUnit ELSE SPUnit) ELSE v

\* C26: a call of combined_fis_custom with an adjustment kind that leaves out
\* the value of one or two of SPlow, SP2 and slope does not fail, and hands on
\* the default of the kind (shift 0.0, scale 1.0, original shape) for each
\* variable left out and the given value for the others.
C26_OmittedValuesDefault ==
    (stage = "comb" /\ ~args.dgo /\ args.adjustment_type \in adjustment_types.comb
       /\ Cardinality(Omitted(args)) \in {1, 2})
    => /\ pc # "raised"
       /\ params # <<>> => \A k \in 1..3 : HandedOn(k) = Expected(k)

----------------------------------------------------------------------------
\* Claim C28: the breakpoints after a shift or a scaling

\* a <= b <= c (<= d)
Ordered(p) == \A k \in 1..(Len(p) - 1) : p[k] <= p[k + 1]

\* every breakpoint inside the domain of the variable
InDomain(variable, p) == \A k \in 1..Len(p) : 0 <= p[k] /\ p[k] <= DomainMax(variable)

\* C28: for every shift and every scale (> 0) of SPlow, SP2 or slope, the
\* breakpoints of every category are in non-decreasing order and inside the
\* domain of the variable.
C28_BreakpointsOrderedInDomain ==
    (stage = "builder" /\ pc # "section" /\ args.variable \in {"splow", "sp2", "slope"}
       /\ args.kind \in {"shift", "scale"})
    => \A cat \in DOMAIN pts[args.variable] :
          /\ Ordered(pts[args.variable][cat])
          /\ InDomain(args.variable, pts[args.variable][cat])

----------------------------------------------------------------------------
\* Claim C29: when the drainage-area gating is active

\* the outputs of the reach when the FIS is evaluated for it
Ungated(r) ==
    reach_outputs(stage, [args EXCEPT !.max_drainage_area = None], mfs, feature_values[r], arrays[r])

\* the reach has the outputs of an evaluation of the FIS
RecordedEvaluated(r) ==
    /\ feature_values[r][capacity_field] = Ungated(r)[capacity_field]
    /\ feature_values[r][dam_count_field] = Ungated(r)[dam_count_field]

\* the reach has been forced to 0
RecordedZero(r) ==
    /\ feature_values[r][capacity_field] = 0
    /\ feature_values[r][dam_count_field] = 0

====
